---- MODULE Spec2Model ----
(***************************************************************************)
(* A model of the Monte Carlo retirement engine (rust-engine/src).         *)
(*                                                                         *)
(* Numbers.  The engine computes in f64.  The model computes in exact      *)
(* rationals <<n, d>> (d > 0, lowest terms), i.e. it follows the real-     *)
(* number meaning of the code's arithmetic: rounding, infinities and NaN   *)
(* are outside it.  Square roots never have to be taken: a comparison of   *)
(* two standard deviations is made on the variances (both sides >= 0).     *)
(*                                                                         *)
(* Random draws are inputs: an action that consumes a draw takes its value *)
(* from a small set with \E.  Only the determinism specification SpecDet   *)
(* runs the seeded 32-bit generator itself.                                *)
(***************************************************************************)
EXTENDS Integers, Sequences, FiniteSets, TLC

VARIABLES
    \* ---- run_monte_carlo_simulation (simulation.rs) ----
    pc,                   \* position of the driver
    call,                 \* the call's arguments (immutable during a run)
    arrays,               \* build_cashflow_arrays' result
    sim,                  \* index of the running simulation
    m,                    \* month of the running simulation
    balance,
    depleted,
    cumulative_shortfall,
    depleted_months,
    sim_balances,
    sim_growth,
    all_balances,
    growth_factors,
    final_balances,
    retire_balances,
    shortfall_totals,
    depleted_flags,
    success_count,
    stats,                \* the reductions, filled when the run ends
    \* ---- component harnesses (pure functions applied to drawn inputs) ----
    fi,                   \* find_retirement_balance_target
    cf,                   \* build_cashflow_arrays
    rg,                   \* detect_regimes / detect_regimes_monthly
    rs,                   \* build_ruin_surface
    det,                  \* two runs of one RandomSource call sequence
    cal,                  \* the calibration of a history: labels, pools, stays
    lp,                   \* the simulation and month loops, draw by draw
    sq,                   \* build_sequence_risk_summary
    rnd,                  \* one RandomSource, call by call
    gf,                   \* the gap-fill pass of the regime detector
    rp                    \* one simulation and its replay, in floating point

drv == <<pc, call, arrays, sim, m, balance, depleted, cumulative_shortfall,
         depleted_months, sim_balances, sim_growth, all_balances,
         growth_factors, final_balances, retire_balances, shortfall_totals,
         depleted_flags, success_count, stats>>

aux == <<cal, lp, sq, rnd, gf, rp>>

vars == <<drv, fi, cf, rg, rs, det, aux>>

-----------------------------------------------------------------------------
(* Exact rational arithmetic.                                              *)

Abs(x) == IF x < 0 THEN -x ELSE x

Max(a, b) == IF a >= b THEN a ELSE b

Min(a, b) == IF a <= b THEN a ELSE b

RECURSIVE GCD(_, _)
GCD(a, b) == IF b = 0 THEN a ELSE GCD(b, a % b)

\* n/d in lowest terms with a positive denominator (d # 0)
Q(n, d) ==
    LET g == GCD(Abs(n), Abs(d))
        s == IF d < 0 THEN -1 ELSE 1
    IN  <<(s * n) \div g, (s * d) \div g>>

Zero == <<0, 1>>

One == <<1, 1>>

RInt(n) == <<n, 1>>

RAdd(a, b) == Q(a[1] * b[2] + b[1] * a[2], a[2] * b[2])

RNeg(a) == <<-a[1], a[2]>>

RSub(a, b) == RAdd(a, RNeg(b))

RMul(a, b) == Q(a[1] * b[1], a[2] * b[2])

\* a / b for b # 0
RDiv(a, b) == Q(a[1] * b[2], a[2] * b[1])

RLe(a, b) == a[1] * b[2] <= b[1] * a[2]

RLt(a, b) == a[1] * b[2] < b[1] * a[2]

RMax(a, b) == IF RLe(b, a) THEN a ELSE b

RMin(a, b) == IF RLe(a, b) THEN a ELSE b

\* f64::floor
RFloor(a) == a[1] \div a[2]

\* f64::ceil
RCeil(a) == -((-a[1]) \div a[2])

\* f64::round: to the nearest integer, halves away from zero
RRound(a) ==
    IF a[1] >= 0 THEN (2 * a[1] + a[2]) \div (2 * a[2])
    ELSE -((2 * (-a[1]) + a[2]) \div (2 * a[2]))

\* calculations.rs clamp
clamp(value, min, max) ==
    IF RLt(value, min) THEN min
    ELSE IF RLt(max, value) THEN max
    ELSE value

\* the sum of s[lo..hi], by halves (the sum is exact, so the order is free)
RECURSIVE RSumRange(_, _, _)
RSumRange(s, lo, hi) ==
    IF lo > hi THEN Zero
    ELSE IF lo = hi THEN s[lo]
    ELSE LET mid == (lo + hi) \div 2
         IN  RAdd(RSumRange(s, lo, mid), RSumRange(s, mid + 1, hi))

RSum(s) == RSumRange(s, 1, Len(s))

Range(s) == {s[i] : i \in DOMAIN s}

\* Iterator::collect: the sequence with every element computed
Collect(s) == SubSeq(s, 1, Len(s))

-----------------------------------------------------------------------------
(* engine2.rs: the cashflow builder.                                       *)
(*                                                                         *)
(* A SpendingPeriod / IncomeSource is a record [id, from_age, to_age,      *)
(* yearly_amount, inflation_adjusted]; inflation_adjusted is the Option    *)
(* "None", "Some(true)" or "Some(false)".  A LumpSumEvent is [age, amount].*)
(* The input carries inflation_root = (1 + inflation_mean)^(1/12), so that *)
(* powf at an age that is a whole number of months from current_age is a   *)
(* rational: (1 + inflation_mean)^(k/12) = inflation_root^k.               *)

RECURSIVE RPow(_, _)
RPow(b, k) == IF k <= 0 THEN One ELSE RMul(b, RPow(b, k - 1))

\* input.inflation_mean
InflationMean(inp) == RSub(RPow(inp.inflation_root, 12), One)

\* 1e-9_f64.max(v), evaluated without leaving the 32-bit integers
MaxTiny(v) ==
    IF v[1] <= 0 THEN <<1, 1000000000>>
    ELSE IF v[1] >= 3 THEN v
    ELSE IF v[1] * 1000000000 < v[2] THEN <<1, 1000000000>>
    ELSE v

expected_inflation_index_at_age(inp, age) ==
    LET years_from_now == RMax(RSub(age, inp.current_age), Zero)
    IN  MaxTiny(RPow(inp.inflation_root, RFloor(RMul(RInt(12), years_from_now))))

\* Option<bool>::unwrap_or(true)
UnwrapOrTrue(opt) == opt # "Some(false)"

\* a filter that takes the period as closed at to_age
MatchesAgeClosed(item, age) == RLe(item.from_age, age) /\ RLe(age, item.to_age)

\* the filter of spending_at_age and income_at_age
MatchesAge(item, age) == RLe(item.from_age, age) /\ RLt(age, item.to_age)

\* the fold's contribution of one matching item
Contribution(item, inflation_index) ==
    IF UnwrapOrTrue(item.inflation_adjusted) THEN item.yearly_amount
    ELSE RDiv(item.yearly_amount, inflation_index)

RECURSIVE AmountAtAge(_, _, _)
AmountAtAge(age, items, inflation_index) ==
    IF items = <<>> THEN Zero
    ELSE RAdd(IF MatchesAge(Head(items), age)
                 THEN Contribution(Head(items), inflation_index)
                 ELSE Zero,
              AmountAtAge(age, Tail(items), inflation_index))

spending_at_age(age, spending_periods, inflation_index) ==
    AmountAtAge(age, spending_periods, inflation_index)

income_at_age(age, income_sources, inflation_index) ==
    AmountAtAge(age, income_sources, inflation_index)

\* age of month k (0-based): current_age + k / 12
AgeOfMonth(inp, k) == RAdd(inp.current_age, Q(k, 12))

\* entry k (0-based) of monthly_net_flow
NetFlowOfMonth(inp, spending_periods, income_sources, k) ==
    LET age == AgeOfMonth(inp, k)
        inflation_index == expected_inflation_index_at_age(inp, age)
        income == income_at_age(age, income_sources, inflation_index)
        spending == spending_at_age(age, spending_periods, inflation_index)
    IN  RDiv(RSub(income, spending), RInt(12))

\* the month index cut off instead of rounded
LumpMonthIndexTruncated(inp, event) ==
    LET x == RMul(RSub(event.age, inp.current_age), RInt(12))
    IN  IF x[1] >= 0 THEN RFloor(x) ELSE RCeil(x)

\* ((event.age - current_age) * 12).round() as isize
LumpMonthIndex(inp, event) ==
    RRound(RMul(RSub(event.age, inp.current_age), RInt(12)))

\* the loop over lump_sum_events; arr is 1-based, entry k + 1 is month k
RECURSIVE AddLumpSums(_, _, _, _)
AddLumpSums(inp, events, arr, months) ==
    IF events = <<>> THEN arr
    ELSE LET month_index == LumpMonthIndex(inp, Head(events))
             next == IF month_index >= 0 /\ month_index < months
                     THEN [arr EXCEPT ![month_index + 1] =
                               RAdd(@, Head(events).amount)]
                     ELSE arr
         IN  AddLumpSums(inp, Tail(events), next, months)

build_cashflow_arrays(inp, spending_periods, income_sources, lump_sum_events, months) ==
    [monthly_net_flow |->
        [k \in 1..months |->
            NetFlowOfMonth(inp, spending_periods, income_sources, k - 1)],
     lump_sum_by_month |->
        AddLumpSums(inp, lump_sum_events, [k \in 1..months |-> Zero], months)]


-----------------------------------------------------------------------------
(* SpecCash: build_cashflow_arrays applied to drawn inputs.                *)

MaxCashMonths == 14

Age30 == RInt(30)

Period(id, from_age, to_age, yearly_amount, inflation_adjusted) ==
    [id |-> id, from_age |-> from_age, to_age |-> to_age,
     yearly_amount |-> yearly_amount, inflation_adjusted |-> inflation_adjusted]

Lump(age, amount) == [age |-> age, amount |-> amount]

CashPeriods ==
    { Period("sp-1", Age30, RInt(31), RInt(12000), "None"),
      Period("sp-2", Q(361, 12), Q(61, 2), RInt(1200), "Some(false)"),
      Period("sp-3", Age30, Q(361, 12), RInt(600), "Some(true)"),
      Period("sp-4", RInt(31), Age30, RInt(2400), "None"),
      Period("sp-5", Q(721, 24), Q(745, 24), RInt(12000), "Some(true)") }

CashSources ==
    { Period("is-default", Age30, Q(61, 2), RInt(6000), "None"),
      Period("is-1", Q(361, 12), RInt(31), RInt(2400), "Some(false)") }

CashLumps ==
    { Lump(Age30, RInt(5)),
      Lump(Q(721, 24), RInt(7)),
      Lump(Q(1441, 48), RInt(-3)),
      Lump(Q(719, 24), RInt(11)),
      Lump(Q(373, 12), RInt(13)) }

SeqsUpTo(S, n) == UNION {[1..k -> S] : k \in 0..n}

CashInput(current_age, inflation_root) ==
    [current_age |-> current_age, inflation_root |-> inflation_root]

\* the documented scenario: +200000 at age 40 and -50000 at age 55
LumpScenario ==
    [input |-> CashInput(Age30, One),
     spending_periods |-> <<>>,
     income_sources |-> <<>>,
     lump_sum_events |-> <<Lump(RInt(40), RInt(200000)), Lump(RInt(55), RInt(-50000))>>,
     months |-> 312]

CashCalls ==
    { [input |-> CashInput(a, r), spending_periods |-> sp, income_sources |-> inc,
       lump_sum_events |-> <<>>, months |-> mo] :
         a \in {Age30, Q(361, 12)}, r \in {One, RInt(2), Q(1, 2)},
         sp \in SeqsUpTo(CashPeriods, 2), inc \in SeqsUpTo(CashSources, 1),
         mo \in {0, 1, MaxCashMonths - 1, MaxCashMonths} }
    \cup
    { [input |-> CashInput(a, One), spending_periods |-> <<>>, income_sources |-> <<>>,
       lump_sum_events |-> ev, months |-> mo] :
         a \in {Age30, Q(361, 12)}, ev \in SeqsUpTo(CashLumps, 2),
         mo \in {0, 1, MaxCashMonths} }
    \cup {LumpScenario}

CfIdle == [pc |-> "idle"]

CfInit ==
    \E c \in CashCalls : cf = [pc |-> "call", call |-> c]

\* one call of build_cashflow_arrays
CfBuild ==
    /\ cf.pc = "call"
    /\ cf' = [pc |-> "done", call |-> cf.call,
              arrays |-> build_cashflow_arrays(cf.call.input,
                             cf.call.spending_periods, cf.call.income_sources,
                             cf.call.lump_sum_events, cf.call.months)]


-----------------------------------------------------------------------------
(* calculations.rs: percentile; stats.rs: the FI target solver.            *)

\* the elements of s whose key is in keys, by key ascending, elements of
\* equal key in the order they have in s
RECURSIVE SortedByKeys(_, _)
SortedByKeys(s, keys) ==
    IF keys = {} THEN <<>>
    ELSE LET least == CHOOSE k \in keys : \A other \in keys : RLe(k, other)
         IN  SelectSeq(s, LAMBDA e : e.key = least) \o SortedByKeys(s, keys \ {least})

\* slice.sort_by(|a, b| a.key.partial_cmp(&b.key)): a stable sort of records
\* that carry their sort key in the field key
SortStable(s) == SortedByKeys(s, {s[i].key : i \in 1..Len(s)})

\* a vector of numbers sorted ascending
SortAscending(s) ==
    LET sorted == SortStable([i \in 1..Len(s) |-> [key |-> s[i]]])
    IN  [i \in 1..Len(s) |-> sorted[i].key]

\* percentile(sorted_array, p); sorted_array is 1-based here
percentile(sorted_array, p) ==
    LET len == Len(sorted_array)
        index == RMul(p, RInt(len - 1))
        lower == RFloor(index)
        upper == RCeil(index)
        weight == RSub(index, RInt(RFloor(index)))
    IN  IF len = 0 THEN Zero
        ELSE IF RLe(p, Zero) THEN sorted_array[1]
        ELSE IF RLe(One, p) THEN sorted_array[len]
        ELSE IF lower = upper THEN sorted_array[lower + 1]
        ELSE RAdd(RMul(sorted_array[lower + 1], RSub(One, weight)),
                  RMul(sorted_array[upper + 1], weight))

P10 == Q(1, 10)

P25 == Q(1, 4)

P50 == Q(1, 2)

P75 == Q(3, 4)

P90 == Q(9, 10)

\* the five bands of one sorted column
Bands(sorted) ==
    [p10 |-> percentile(sorted, P10), p25 |-> percentile(sorted, P25),
     p50 |-> percentile(sorted, P50), p75 |-> percentile(sorted, P75),
     p90 |-> percentile(sorted, P90)]

\* summarize(values)
summarize(values) == Bands(SortAscending(values))

\* the Outcome vector left in input order
UnsortedOutcomes(retirement_balances, ending_balances) ==
    LET outcome_count == Min(Len(retirement_balances), Len(ending_balances))
    IN  [index \in 1..outcome_count |->
            [retirement_balance |-> retirement_balances[index],
             ending_positive |-> RLt(Zero, ending_balances[index])]]

\* the Outcome vector of find_retirement_balance_target, sorted by
\* retirement_balance
SortedOutcomes(retirement_balances, ending_balances) ==
    LET outcome_count == Min(Len(retirement_balances), Len(ending_balances))
        sorted == SortStable([index \in 1..outcome_count |->
                                 [key |-> retirement_balances[index],
                                  ending_positive |-> RLt(Zero, ending_balances[index])]])
    IN  [index \in 1..outcome_count |->
            [retirement_balance |-> sorted[index].key,
             ending_positive |-> sorted[index].ending_positive]]

\* suffix_success[index], index 1-based (entry outcome_count + 1 is 0)
RECURSIVE SuffixSuccess(_, _)
SuffixSuccess(outcomes, index) ==
    IF index > Len(outcomes) THEN 0
    ELSE SuffixSuccess(outcomes, index + 1)
         + (IF outcomes[index].ending_positive THEN 1 ELSE 0)

\* the forward loop with its break: the target found from index on, or
\* the initial required_target when the loop runs out
RECURSIVE SearchTarget(_, _, _, _)
SearchTarget(outcomes, index, target_success_probability, required_target) ==
    IF index > Len(outcomes) THEN required_target
    ELSE LET sample_size == Len(outcomes) - index + 1
             success_probability == Q(SuffixSuccess(outcomes, index), sample_size)
         IN  IF RLe(target_success_probability, success_probability)
             THEN outcomes[index].retirement_balance
             ELSE SearchTarget(outcomes, index + 1, target_success_probability,
                               required_target)

find_retirement_balance_target(retirement_balances, ending_balances, threshold) ==
    LET outcomes == SortedOutcomes(retirement_balances, ending_balances)
    IN  IF Len(outcomes) = 0 THEN Zero
        ELSE RMax(SearchTarget(outcomes, 1, threshold,
                               outcomes[Len(outcomes)].retirement_balance),
                  Zero)


-----------------------------------------------------------------------------
(* simulation.rs: run_monte_carlo_simulation.                              *)
(*                                                                         *)
(* call = [input, spending_periods, income_sources, lump_sum_events,       *)
(* months, retire_month] are the arguments.  Besides the cashflow fields,  *)
(* input carries current_savings, annual_fee_percent, tax_on_gains_percent,*)
(* simulation_mode (an Option), inflation_variability and simulations.     *)
(* input.pool is the set of monthly returns the bootstrap can select for   *)
(* this input (the regime pools after annual_to_monthly_return, or the     *)
(* clamped monthly history): every element is > -1.                        *)

\* stands for the 400 of 400.max(input.simulations.round())
MinSimCount == 2

\* the horizon of the drawn calls
MaxMonths == 3

SimCount(inp) == Max(MinSimCount, RRound(inp.simulations))

\* simulation_mode.as_deref().unwrap_or("historical") == "historical"
UseHistoricalBootstrap(inp) == inp.simulation_mode \in {"None", "Some(historical)"}

\* values draw_monthly_return_shaped can deliver for the stress overlay
OverlayDraws == {Zero, RInt(-2)}

\* values draw_monthly_return_shaped can deliver for the monthly inflation
\* when inflation_variability > 0 (1 + monthly_inflation # 0)
ShapedInflationDraws == {Q(-3, 2), One}

\* monthly_asset_return: the selected return, plus the overlay in the
\* parametric mode only
MonthlyAssetReturns(inp) ==
    IF UseHistoricalBootstrap(inp) THEN inp.pool
    ELSE {RAdd(r, o) : r \in inp.pool, o \in OverlayDraws}

\* monthly_inflation: mean / 12 + std / sqrt(12) * score
MonthlyInflations(inp) ==
    IF inp.inflation_variability = Zero
    THEN {RDiv(InflationMean(inp), RInt(12))}
    ELSE ShapedInflationDraws

\* monthly_portfolio_growth_factor
GrowthFactor(inp, monthly_asset_return) ==
    LET annual_fee_rate == clamp(inp.annual_fee_percent, Zero, One)
        tax_on_gains_rate == clamp(inp.tax_on_gains_percent, Zero, One)
        monthly_fee_factor == RMax(RSub(One, RDiv(annual_fee_rate, RInt(12))), Zero)
        monthly_asset_return_after_tax ==
            IF RLt(Zero, monthly_asset_return)
            THEN RMul(monthly_asset_return, RSub(One, tax_on_gains_rate))
            ELSE monthly_asset_return
    IN  RMul(RAdd(One, monthly_asset_return_after_tax), monthly_fee_factor)

\* balance after  += flows; *= growth factor; /= 1 + monthly_inflation
GrownBalance(bal, flow, lump, growth_factor, monthly_inflation) ==
    RDiv(RMul(RAdd(bal, RAdd(flow, lump)), growth_factor),
         RAdd(One, monthly_inflation))

\* a clamp that books the deficit but leaves the balance negative
ClampBalanceNoReset(bal, shortfall, dep) ==
    IF RLe(bal, Zero)
    THEN [balance |-> bal,
          cumulative_shortfall |-> RAdd(shortfall, RMax(Zero, RNeg(bal))),
          depleted |-> TRUE]
    ELSE [balance |-> bal, cumulative_shortfall |-> shortfall, depleted |-> dep]

\* the block  if balance <= 0.0 { ... }  as [balance, cumulative_shortfall, depleted]
ClampBalance(bal, shortfall, dep) ==
    IF RLe(bal, Zero)
    THEN [balance |-> Zero,
          cumulative_shortfall |-> RAdd(shortfall, RMax(Zero, RNeg(bal))),
          depleted |-> TRUE]
    ELSE [balance |-> bal, cumulative_shortfall |-> shortfall, depleted |-> dep]

\* a counter that is never advanced
DepletedMonthsUncounted(bal, count) == count

\* if balance == 0.0 { depleted_months += 1; }
DepletedMonthsAfter(bal, count) == IF bal = Zero THEN count + 1 ELSE count

\* a success test that forgets the depleted flag
IsSuccessByBalanceOnly(dep, bal) == RLt(Zero, bal)

\* if !depleted && balance > 0.0
IsSuccess(dep, bal) == ~dep /\ RLt(Zero, bal)

\* retire_index, 0-based
RetireIndex(retire_month, months) ==
    Min(Max(retire_month - 1, 0), Max(months - 1, 0))

\* the column taken in simulation order, not sorted
UnsortedColumn(balances, month) ==
    [s \in 1..Len(balances) |-> balances[s][month]]

\* column m (1-based) of all_balances, sorted
SortedColumn(balances, month) ==
    SortAscending([s \in 1..Len(balances) |-> balances[s][month]])

\* the reductions that close the run
Reductions(c, balances, retires, finals, successes) ==
    LET sim_count == SimCount(c.input)
        target_fi_p95 == find_retirement_balance_target(retires, finals, Q(19, 20))
    IN  [fi_target |-> target_fi_p95,
         fi_target_p95 |-> target_fi_p95,
         fi_probability_p95 |->
             Q(Cardinality({s \in 1..Len(retires) : RLe(target_fi_p95, retires[s])}),
               sim_count),
         success_probability |-> Q(successes, sim_count),
         percentiles |-> [month \in 1..c.months |-> Bands(SortedColumn(balances, month))],
         final_percentiles |-> summarize(finals),
         retire_percentiles |-> summarize(retires)]

NoStats == [fi_target |-> Zero]

DrvIdle ==
    /\ pc = "idle"
    /\ call = <<>>
    /\ arrays = <<>>
    /\ sim = 0
    /\ m = 0
    /\ balance = Zero
    /\ depleted = FALSE
    /\ cumulative_shortfall = Zero
    /\ depleted_months = 0
    /\ sim_balances = <<>>
    /\ sim_growth = <<>>
    /\ all_balances = <<>>
    /\ growth_factors = <<>>
    /\ final_balances = <<>>
    /\ retire_balances = <<>>
    /\ shortfall_totals = <<>>
    /\ depleted_flags = <<>>
    /\ success_count = 0
    /\ stats = NoStats


DriverInput(current_savings, mode, pool, inflation_variability, fee, tax, simulations) ==
    [current_age |-> Age30, inflation_root |-> One,
     current_savings |-> current_savings, simulation_mode |-> mode, pool |-> pool,
     inflation_variability |-> inflation_variability,
     annual_fee_percent |-> fee, tax_on_gains_percent |-> tax,
     simulations |-> simulations]

DriverCall(inp, spending_periods, income_sources, lump_sum_events, months, retire_month) ==
    [input |-> inp, spending_periods |-> spending_periods,
     income_sources |-> income_sources, lump_sum_events |-> lump_sum_events,
     months |-> months, retire_month |-> retire_month]

Half == Q(1, 2)

\* income of 100 a month from the second month on
LateSalary == Period("is-default", Q(361, 12), RInt(90), RInt(1200), "None")

\* spending of 200 a month over the whole horizon
Living == Period("sp-1", Age30, RInt(90), RInt(2400), "Some(true)")

DriverCalls ==
    { \* growth only: savings compound under tax, never touched
      DriverCall(DriverInput(RInt(100), "None", {RNeg(Half), Half}, Zero, Zero, Half, One),
                 <<>>, <<>>, <<>>, MaxMonths, 2),
      \* nothing in month 0, a salary afterwards
      DriverCall(DriverInput(Zero, "Some(historical)", {Zero, Half}, Zero, Zero, Zero, One),
                 <<>>, <<LateSalary>>, <<>>, MaxMonths, 1),
      \* the same in the parametric mode, where the overlay can sink a month
      DriverCall(DriverInput(Zero, "Some(parametric)", {Zero}, Zero, Zero, Zero, One),
                 <<>>, <<LateSalary>>, <<>>, MaxMonths, 1),
      \* spending beyond the savings, inflation drawn, a fee
      DriverCall(DriverInput(RInt(300), "Some(historical)", {Half}, Q(1, 50), One, Zero, One),
                 <<Living>>, <<>>, <<>>, MaxMonths, 0),
      \* lump sums: a withdrawal in month 1, a windfall in month 2
      DriverCall(DriverInput(RInt(10), "None", {RNeg(Half), Half}, Zero, Zero, RInt(2), One),
                 <<>>, <<>>, <<Lump(Q(361, 12), RInt(-50)), Lump(Q(181, 6), RInt(100))>>,
                 MaxMonths, MaxMonths + 2),
      \* more simulations requested than the minimum, one month
      DriverCall(DriverInput(RInt(100), "Some(parametric)", {Half}, Zero, Zero, Zero,
                             Q(2 * MinSimCount + 1, 2)),
                 <<Living>>, <<>>, <<>>, 1, 1) }

DrvInit ==
    /\ pc = "setup"
    /\ call \in DriverCalls
    /\ arrays = <<>>
    /\ sim = 0
    /\ m = 0
    /\ balance = Zero
    /\ depleted = FALSE
    /\ cumulative_shortfall = Zero
    /\ depleted_months = 0
    /\ sim_balances = <<>>
    /\ sim_growth = <<>>
    /\ all_balances = <<>>
    /\ growth_factors = <<>>
    /\ final_balances = <<>>
    /\ retire_balances = <<>>
    /\ shortfall_totals = <<>>
    /\ depleted_flags = <<>>
    /\ success_count = 0
    /\ stats = NoStats

\* lines 108-288: everything before the simulation loop
Setup ==
    /\ pc = "setup"
    /\ arrays' = build_cashflow_arrays(call.input, call.spending_periods,
                     call.income_sources, call.lump_sum_events, call.months)
    /\ pc' = "sim_start"
    /\ UNCHANGED <<call, sim, m, balance, depleted, cumulative_shortfall,
                   depleted_months, sim_balances, sim_growth, all_balances,
                   growth_factors, final_balances, retire_balances,
                   shortfall_totals, depleted_flags, success_count, stats>>

\* lines 290-319: the head of one simulation
SimStart ==
    /\ pc = "sim_start"
    /\ balance' = call.input.current_savings
    /\ depleted' = FALSE
    /\ cumulative_shortfall' = Zero
    /\ depleted_months' = 0
    /\ sim_balances' = [k \in 1..call.months |-> Zero]
    /\ sim_growth' = [k \in 1..call.months |-> One]
    /\ m' = 0
    /\ pc' = IF call.months > 0 THEN "month" ELSE "sim_end"
    /\ UNCHANGED <<call, arrays, sim, all_balances, growth_factors, final_balances,
                   retire_balances, shortfall_totals, depleted_flags,
                   success_count, stats>>

\* lines 321-440: one month of one simulation
MonthStep ==
    /\ pc = "month"
    /\ \E monthly_asset_return \in MonthlyAssetReturns(call.input),
          monthly_inflation \in MonthlyInflations(call.input) :
         LET growth_factor == GrowthFactor(call.input, monthly_asset_return)
             grown == GrownBalance(balance, arrays.monthly_net_flow[m + 1],
                                   arrays.lump_sum_by_month[m + 1],
                                   growth_factor, monthly_inflation)
             after == ClampBalance(grown, cumulative_shortfall, depleted)
         IN  /\ sim_growth' = [sim_growth EXCEPT ![m + 1] =
                                  RDiv(growth_factor, RAdd(One, monthly_inflation))]
             /\ balance' = after.balance
             /\ cumulative_shortfall' = after.cumulative_shortfall
             /\ depleted' = after.depleted
             /\ depleted_months' = DepletedMonthsAfter(after.balance, depleted_months)
             /\ sim_balances' = [sim_balances EXCEPT ![m + 1] = after.balance]
    /\ m' = m + 1
    /\ pc' = IF m + 1 < call.months THEN "month" ELSE "sim_end"
    /\ UNCHANGED <<call, arrays, sim, all_balances, growth_factors, final_balances,
                   retire_balances, shortfall_totals, depleted_flags,
                   success_count, stats>>

\* lines 442-465: the tail of one simulation
SimEnd ==
    /\ pc = "sim_end"
    /\ call.months > 0
    /\ retire_balances' = Append(retire_balances,
           sim_balances[RetireIndex(call.retire_month, call.months) + 1])
    /\ final_balances' = Append(final_balances, balance)
    /\ shortfall_totals' = Append(shortfall_totals, cumulative_shortfall)
    /\ depleted_flags' = Append(depleted_flags, depleted)
    /\ all_balances' = Append(all_balances, sim_balances)
    /\ growth_factors' = Append(growth_factors, sim_growth)
    /\ success_count' = IF IsSuccess(depleted, balance) THEN success_count + 1
                        ELSE success_count
    /\ sim' = sim + 1
    /\ pc' = IF sim + 1 < SimCount(call.input) THEN "sim_start" ELSE "reduce"
    /\ UNCHANGED <<call, arrays, m, balance, depleted, cumulative_shortfall,
                   depleted_months, sim_balances, sim_growth, stats>>

\* lines 467-574: the reductions and the result
Reduce ==
    /\ pc = "reduce"
    /\ stats' = Reductions(call, all_balances, retire_balances, final_balances,
                           success_count)
    /\ pc' = "done"
    /\ UNCHANGED <<call, arrays, sim, m, balance, depleted, cumulative_shortfall,
                   depleted_months, sim_balances, sim_growth, all_balances,
                   growth_factors, final_balances, retire_balances,
                   shortfall_totals, depleted_flags, success_count>>

FiIdle == [pc |-> "idle"]

RgIdle == [pc |-> "idle"]

RsIdle == [pc |-> "idle"]

DetIdle == [pc |-> "idle"]

CalIdle == [pc |-> "idle"]

LpIdle == [pc |-> "idle"]

SqIdle == [pc |-> "idle"]

RndIdle == [pc |-> "idle"]

GfIdle == [pc |-> "idle"]

RpIdle == [pc |-> "idle"]

AuxIdle ==
    cal = CalIdle /\ lp = LpIdle /\ sq = SqIdle /\ rnd = RndIdle /\ gf = GfIdle /\ rp = RpIdle

Init ==
    /\ DrvInit
    /\ fi = FiIdle
    /\ cf = CfIdle
    /\ rg = RgIdle
    /\ rs = RsIdle
    /\ det = DetIdle
    /\ AuxIdle

Next ==
    \/ Setup /\ UNCHANGED <<fi, cf, rg, rs, det, aux>>
    \/ SimStart /\ UNCHANGED <<fi, cf, rg, rs, det, aux>>
    \/ MonthStep /\ UNCHANGED <<fi, cf, rg, rs, det, aux>>
    \/ SimEnd /\ UNCHANGED <<fi, cf, rg, rs, det, aux>>
    \/ Reduce /\ UNCHANGED <<fi, cf, rg, rs, det, aux>>

Spec == Init /\ [][Next]_vars

CashInit ==
    /\ DrvIdle
    /\ fi = FiIdle
    /\ CfInit
    /\ rg = RgIdle
    /\ rs = RsIdle
    /\ det = DetIdle
    /\ AuxIdle

CashNext == CfBuild /\ UNCHANGED <<drv, fi, rg, rs, det, aux>>

SpecCash == CashInit /\ [][CashNext]_vars


-----------------------------------------------------------------------------
(* Claims about the driver (Spec).                                         *)

\* every balance recorded so far is >= 0
RecordedBalancesNonNegative ==
    /\ \A s \in 1..Len(all_balances) : \A k \in 1..Len(all_balances[s]) :
           RLe(Zero, all_balances[s][k])
    /\ pc \in {"month", "sim_end"} =>
           \A k \in 1..m : RLe(Zero, sim_balances[k])
    /\ \A s \in 1..Len(final_balances) : RLe(Zero, final_balances[s])

\* the balance of the running month before the clamp: the balance with the
\* month's flows, times the real growth factor recorded for the month
PreClampBalance ==
    RMul(RAdd(balance, RAdd(arrays.monthly_net_flow[m + 1],
                            arrays.lump_sum_by_month[m + 1])),
         sim_growth'[m + 1])

\* C1: in every simulation the balance recorded at the end of every month is
\* >= 0: a post-growth balance <= 0 is reset to 0 and its deficit
\* max(0, -balance) is added to the simulation's cumulative shortfall, which
\* never decreases during the simulation; a positive balance is kept as it is.
C1_BalanceClamped ==
    [][ /\ RecordedBalancesNonNegative'
        /\ pc = "month" =>
             /\ RLe(Zero, balance')
             /\ sim_balances'[m + 1] = balance'
             /\ \A k \in 1..m : sim_balances'[k] = sim_balances[k]
             /\ RLe(cumulative_shortfall, cumulative_shortfall')
             /\ IF RLe(PreClampBalance, Zero)
                THEN /\ balance' = Zero
                     /\ cumulative_shortfall' =
                            RAdd(cumulative_shortfall, RMax(Zero, RNeg(PreClampBalance)))
                ELSE /\ balance' = PreClampBalance
                     /\ cumulative_shortfall' = cumulative_shortfall
      ]_vars

\* a month has ended with a deficit booked and the balance reset to 0
C1_Witness ==
    /\ pc \in {"month", "sim_end"}
    /\ m >= 1
    /\ sim_balances[m] = Zero
    /\ balance = Zero
    /\ RLt(Zero, cumulative_shortfall)

\* the simulations that are depleted or end with balance 0
FailedSims == {s \in 1..Len(final_balances) :
                  depleted_flags[s] \/ final_balances[s] = Zero}

\* the simulations that were never depleted and end with a balance > 0
SucceededSims == {s \in 1..Len(final_balances) :
                     ~depleted_flags[s] /\ RLt(Zero, final_balances[s])}

\* C2: successProbability plus the fraction of simulations that are depleted
\* or end with balance 0 is exactly 1: a simulation counts as a success iff it
\* was never depleted and its final balance is > 0, and every simulation is
\* on exactly one side.
C2_SuccessPartition ==
    /\ pc \in {"sim_start", "month", "sim_end", "reduce", "done"} =>
         /\ success_count = Cardinality(SucceededSims)
         /\ SucceededSims \cap FailedSims = {}
         /\ SucceededSims \cup FailedSims = 1..Len(final_balances)
    /\ pc = "done" =>
         /\ Len(final_balances) = SimCount(call.input)
         /\ RAdd(stats.success_probability,
                 Q(Cardinality(FailedSims), SimCount(call.input))) = One

\* a finished run with a success and with a depleted simulation that ends > 0
C2_Witness ==
    /\ pc = "done"
    /\ success_count >= 1
    /\ \E s \in FailedSims : depleted_flags[s] /\ RLt(Zero, final_balances[s])

\* the balances of one month across the simulations
ColumnValues(month) == {all_balances[s][month] : s \in 1..Len(all_balances)}

BandsOrderedWithin(b, column) ==
    /\ RLe(b.p10, b.p25)
    /\ RLe(b.p25, b.p50)
    /\ RLe(b.p50, b.p75)
    /\ RLe(b.p75, b.p90)
    /\ \E lo \in column : RLe(lo, b.p10)
    /\ \E hi \in column : RLe(b.p90, hi)

-----------------------------------------------------------------------------
(* Claims about the cashflow builder (SpecCash).                           *)

\* what an item contributes at an age when the period is taken half-open
\* [from_age, to_age): the yearly amount, deflated by the index iff the item
\* is flagged not inflation-adjusted
HalfOpenContribution(item, age, index) ==
    IF RLe(item.from_age, age) /\ RLt(age, item.to_age)
    THEN IF item.inflation_adjusted = "Some(false)"
         THEN RDiv(item.yearly_amount, index)
         ELSE item.yearly_amount
    ELSE Zero

HalfOpenTotal(items, age, index) ==
    RSum([j \in 1..Len(items) |-> HalfOpenContribution(items[j], age, index)])

\* a period of 12000, inflation-adjusted, one year long, inside the horizon
OneYearOf12000(c) ==
    /\ Len(c.spending_periods) = 1
    /\ c.income_sources = <<>>
    /\ c.spending_periods[1].yearly_amount = RInt(12000)
    /\ c.spending_periods[1].inflation_adjusted # "Some(false)"
    /\ c.spending_periods[1].to_age = RAdd(c.spending_periods[1].from_age, One)
    /\ RLe(c.input.current_age, c.spending_periods[1].from_age)
    /\ RLe(c.spending_periods[1].to_age, AgeOfMonth(c.input, c.months))

\* C8: monthlyNetFlow[m] = (income - spending) / 12, where an item counts at
\* age = currentAge + m/12 iff fromAge <= age < toAge, with its yearly amount
\* when inflation-adjusted (the default) and yearlyAmount / inflationIndex(age)
\* otherwise; so one inflation-adjusted period of 12000 over exactly one year,
\* without income, touches exactly 12 months, which sum to -12000.
C8_NetFlowHalfOpen ==
    cf.pc = "done" =>
        LET c == cf.call
            flow == cf.arrays.monthly_net_flow
        IN  /\ Len(flow) = c.months
            /\ \A k \in 0..(c.months - 1) :
                 LET age == RAdd(c.input.current_age, Q(k, 12))
                     index == expected_inflation_index_at_age(c.input, age)
                 IN  flow[k + 1] =
                         RDiv(RSub(HalfOpenTotal(c.income_sources, age, index),
                                   HalfOpenTotal(c.spending_periods, age, index)),
                              RInt(12))
            /\ OneYearOf12000(c) =>
                 /\ Cardinality({k \in 1..c.months : flow[k] # Zero}) = 12
                 /\ \A k \in 1..c.months : flow[k] \in {Zero, RInt(-1000)}
                 /\ RSum(flow) = RInt(-12000)

\* the one-year period, here one that starts between two months, was built
C8_Witness ==
    /\ cf.pc = "done"
    /\ OneYearOf12000(cf.call)
    /\ cf.call.spending_periods[1].id = "sp-5"
    /\ cf.arrays.monthly_net_flow[1] = Zero
    /\ cf.arrays.monthly_net_flow[2] = RInt(-1000)

\* i is x rounded to the nearest integer, halves away from zero
RoundsTo(x, i) ==
    IF RLe(Zero, x)
    THEN RLe(Q(2 * i - 1, 2), x) /\ RLt(x, Q(2 * i + 1, 2))
    ELSE RLt(Q(2 * i - 1, 2), x) /\ RLe(x, Q(2 * i + 1, 2))

\* the months since current_age of a lump-sum event, as a fraction
LumpOffset(c, j) ==
    RMul(RSub(c.lump_sum_events[j].age, c.input.current_age), RInt(12))

\* the sum of the events that round to month i
LumpTotal(c, i) ==
    RSum([j \in 1..Len(c.lump_sum_events) |->
             IF RoundsTo(LumpOffset(c, j), i) THEN c.lump_sum_events[j].amount
             ELSE Zero])

\* C9: lumpSumByMonth[i] is the sum of the amounts of exactly the events with
\* round((age - currentAge) * 12) = i: events that round below 0 or to months
\* or beyond change nothing, events of one month add up, every other entry is
\* 0; +200000 at age 40 and -50000 at age 55 land on their own two indices.
C9_LumpSumsByMonth ==
    cf.pc = "done" =>
        LET c == cf.call
            lump == cf.arrays.lump_sum_by_month
        IN  /\ Len(lump) = c.months
            /\ \A i \in 0..(c.months - 1) : lump[i + 1] = LumpTotal(c, i)
            /\ c = LumpScenario =>
                 /\ lump[121] = RInt(200000)
                 /\ lump[301] = RInt(-50000)
                 /\ \A i \in 1..c.months : i \notin {121, 301} => lump[i] = Zero

\* two events of one month were added up while a third index stayed 0
C9_Witness ==
    /\ cf.pc = "done"
    /\ Len(cf.call.lump_sum_events) = 2
    /\ cf.call.months >= 2
    /\ RoundsTo(LumpOffset(cf.call, 1), 0)
    /\ RoundsTo(LumpOffset(cf.call, 2), 0)
    /\ cf.call.lump_sum_events[1] # cf.call.lump_sum_events[2]
    /\ cf.arrays.lump_sum_by_month[1] = RInt(2)
    /\ cf.arrays.lump_sum_by_month[2] = Zero

-----------------------------------------------------------------------------
(* SpecFI: find_retirement_balance_target applied to drawn arrays.         *)

MaxOutcomes == 3

FiBalances == {RInt(-1), Zero, RInt(2)}

FiEndings == {Zero, One}

FiThresholds == {Q(19, 20), Half}

\* the documented example
FiExample ==
    [pc |-> "call",
     retirement_balances |-> <<RInt(100), RInt(200), RInt(300), RInt(400), RInt(500)>>,
     ending_balances |-> <<Zero, One, One, One, One>>,
     target_success_probability |-> Q(19, 20)]

FiInit ==
    \/ fi = FiExample
    \/ \E r \in SeqsUpTo(FiBalances, MaxOutcomes), e \in SeqsUpTo(FiEndings, MaxOutcomes),
          t \in FiThresholds :
         fi = [pc |-> "call", retirement_balances |-> r, ending_balances |-> e,
               target_success_probability |-> t]

\* one call of find_retirement_balance_target
FiSolve ==
    /\ fi.pc = "call"
    /\ fi' = [pc |-> "done",
              retirement_balances |-> fi.retirement_balances,
              ending_balances |-> fi.ending_balances,
              target_success_probability |-> fi.target_success_probability,
              target |-> find_retirement_balance_target(fi.retirement_balances,
                             fi.ending_balances, fi.target_success_probability)]

FIInit ==
    /\ DrvIdle
    /\ FiInit
    /\ cf = CfIdle
    /\ rg = RgIdle
    /\ rs = RsIdle
    /\ det = DetIdle
    /\ AuxIdle

FINext == FiSolve /\ UNCHANGED <<drv, cf, rg, rs, det, aux>>

SpecFI == FIInit /\ [][FINext]_vars

\* the one ordering of 1..n that sorts the keys ascending and keeps equal
\* keys in input order
IsStableOrder(perm, keys, n) ==
    /\ \A i, j \in 1..n : i # j => perm[i] # perm[j]
    /\ \A i \in 1..(n - 1) :
         \/ RLt(keys[perm[i]], keys[perm[i + 1]])
         \/ keys[perm[i]] = keys[perm[i + 1]] /\ perm[i] < perm[i + 1]

\* the target the claim describes, from the two arrays
DescribedTarget(ret, fin, threshold) ==
    LET n == Min(Len(ret), Len(fin))
        perm == CHOOSE f \in [1..n -> 1..n] : IsStableOrder(f, ret, n)
        Qualifies(i) ==
            RLe(threshold,
                Q(Cardinality({j \in i..n : RLt(Zero, fin[perm[j]])}), n - i + 1))
        qualifying == {i \in 1..n : Qualifies(i)}
    IN  IF n = 0 THEN Zero
        ELSE IF qualifying = {} THEN RMax(Zero, ret[perm[n]])
        ELSE LET first == CHOOSE i \in qualifying : \A j \in qualifying : i <= j
             IN  RMax(Zero, ret[perm[first]])

\* C6: the solver pairs the arrays, sorts ascending by retirement balance and
\* returns max(0, outcomes[i].retirementBalance) for the smallest i with
\* #{j >= i : endingBalance[j] > 0} / (n - i) >= threshold, max(0, the largest
\* retirement balance) if no i qualifies, and 0 for empty input; balances
\* 100..500 with endings 0,1,1,1,1 at 0.95 give 200.
C6_FiSolverAlgorithm ==
    fi.pc = "done" =>
        /\ fi.target = DescribedTarget(fi.retirement_balances, fi.ending_balances,
                                       fi.target_success_probability)
        /\ fi.retirement_balances = FiExample.retirement_balances
           /\ fi.ending_balances = FiExample.ending_balances
           /\ fi.target_success_probability = Q(19, 20)
           => fi.target = RInt(200)

\* a call on unsorted balances whose target is neither the first nor the
\* largest balance
C6_Witness ==
    /\ fi.pc = "done"
    /\ fi.retirement_balances = <<RInt(2), Zero, RInt(-1)>>
    /\ fi.ending_balances = <<One, Zero, One>>
    /\ fi.target_success_probability = Q(19, 20)
    /\ fi.target = RInt(2)

-----------------------------------------------------------------------------
(* The FI target as the run reports it (Spec).                             *)

\* the share of the simulations with retirement balance >= level that end > 0
\* reaches the threshold
MeetsThresholdFrom(level, threshold) ==
    LET above == {s \in 1..Len(retire_balances) : RLe(level, retire_balances[s])}
        ending_positive == {s \in above : RLt(Zero, final_balances[s])}
    IN  /\ above # {}
        /\ RLe(threshold, Q(Cardinality(ending_positive), Cardinality(above)))

\* C5: when some suffix of the sorted outcomes reaches the threshold, the FI
\* target T is a retirement balance such that at least 95% of ALL simulations
\* with retirement balance >= T end with a balance > 0, and no smaller
\* retirement balance of the run has this property, also when simulations
\* share a retirement balance.
C5_FiTargetMeetsThreshold ==
    pc = "done" =>
        LET levels == Range(retire_balances)
            outcomes == SortedOutcomes(retire_balances, final_balances)
            n == Len(outcomes)
        IN  (\E i \in 1..n : RLe(Q(19, 20), Q(SuffixSuccess(outcomes, i), n - i + 1)))
            => /\ stats.fi_target_p95 \in levels
               /\ MeetsThresholdFrom(stats.fi_target_p95, Q(19, 20))
               /\ \A level \in levels :
                    RLt(level, stats.fi_target_p95)
                        => ~MeetsThresholdFrom(level, Q(19, 20))


-----------------------------------------------------------------------------
(* engine2.rs: the regime detector.                                        *)
(*                                                                         *)
(* std_dev = sqrt(variance) is not taken.  With d = mean - value and       *)
(* c >= 0:  value <= mean - c * std_dev  iff  d >= 0 and d^2 >= c^2 * var; *)
(* rolling_std >= c * std_dev  iff  rolling_var >= c^2 * var.              *)

\* sum / len.max(1)
Mean(values) == RDiv(RSum(values), RInt(Max(Len(values), 1)))

\* the population variance, floored at 0
Variance(values) ==
    LET mean == Mean(values)
    IN  RMax(RDiv(RSum([i \in 1..Len(values) |->
                           RMul(RSub(values[i], mean), RSub(values[i], mean))]),
                  RInt(Max(Len(values), 1))),
             Zero)

RSquare(x) == RMul(x, x)

\* the label of index (1-based) before the gap fill: mean and variance are
\* those of the series, back is how far the trailing window reaches back,
\* c_return and c_volatility the two factors
RawLabel(returns, mean, variance, index, back, c_return, c_volatility) ==
    LET window == SubSeq(returns, Max(index - back, 1), index)
        rolling_variance == Variance(window)
        d == RSub(mean, returns[index])
        crisis_by_return ==
            RLe(Zero, d) /\ RLe(RMul(RSquare(c_return), variance), RSquare(d))
        crisis_by_volatility ==
            RLe(RMul(RSquare(c_volatility), variance), rolling_variance)
    IN  IF crisis_by_return \/ crisis_by_volatility THEN 1 ELSE 0

\* a step that fills next to one crisis label already
GapFillAtEitherNeighbour(labels, index) ==
    IF labels[index] = 0 /\ (labels[index - 1] = 1 \/ labels[index + 1] = 1)
    THEN [labels EXCEPT ![index] = 1]
    ELSE labels

\* one step of the in-place pass, at index (1-based)
GapFillAt(labels, index) ==
    IF labels[index] = 0 /\ labels[index - 1] = 1 /\ labels[index + 1] = 1
    THEN [labels EXCEPT ![index] = 1]
    ELSE labels

\* the steps lo..hi of the pass, in order: the first half, then the second
\* on what the first left (the pass keeps the length: the test on it makes
\* the first half be evaluated before the second starts)
RECURSIVE GapFillFrom(_, _, _)
GapFillFrom(labels, lo, hi) ==
    IF lo > hi THEN labels
    ELSE IF lo = hi THEN GapFillAt(labels, lo)
    ELSE LET mid == (lo + hi) \div 2
             done == GapFillFrom(labels, lo, mid)
         IN  IF Len(done) = Len(labels)
             THEN GapFillFrom(done, mid + 1, hi)
             ELSE labels

\* for index in 1..labels.len() - 1 (0-based), when labels.len() > 2
GapFill(labels) ==
    IF Len(labels) > 2 THEN GapFillFrom(labels, 2, Len(labels) - 1) ELSE labels

detect_regimes(annual_returns) ==
    LET mean == Mean(annual_returns)
        variance == Variance(annual_returns)
    IN  GapFill(Collect([index \in 1..Len(annual_returns) |->
                            RawLabel(annual_returns, mean, variance, index, 2,
                                     Q(13, 20), Q(23, 20))]))

detect_regimes_monthly(monthly_returns) ==
    LET mean == Mean(monthly_returns)
        variance == Variance(monthly_returns)
    IN  GapFill(Collect([index \in 1..Len(monthly_returns) |->
                            RawLabel(monthly_returns, mean, variance, index, 5,
                                     Q(3, 4), Q(6, 5))]))

-----------------------------------------------------------------------------
(* SpecRegime: the two detectors applied to drawn series.                  *)

MaxSeries == 7

RegimeValues == {Q(-1, 2), Zero, Q(1, 10)}

RgInit ==
    \E series \in SeqsUpTo(RegimeValues, MaxSeries) :
        rg = [pc |-> "call", series |-> series]

\* one call of detect_regimes
RgDetectAnnual ==
    /\ rg.pc = "call"
    /\ rg' = [pc |-> "annual", series |-> rg.series,
              labels |-> detect_regimes(rg.series)]

\* one call of detect_regimes_monthly
RgDetectMonthly ==
    /\ rg.pc = "call"
    /\ rg' = [pc |-> "monthly", series |-> rg.series,
              labels |-> detect_regimes_monthly(rg.series)]

RegimeInit ==
    /\ DrvIdle
    /\ fi = FiIdle
    /\ cf = CfIdle
    /\ RgInit
    /\ rs = RsIdle
    /\ det = DetIdle
    /\ AuxIdle

RegimeNext ==
    \/ RgDetectAnnual /\ UNCHANGED <<drv, fi, cf, rs, det, aux>>
    \/ RgDetectMonthly /\ UNCHANGED <<drv, fi, cf, rs, det, aux>>

SpecRegime == RegimeInit /\ [][RegimeNext]_vars

IsConstant(series) == \A i, j \in 1..Len(series) : series[i] = series[j]

\* C10: the regime detector, annual and monthly, labels a constant series of
\* any length all growth: no index gets the crisis label 1.
C10_ConstantSeriesAllGrowth ==
    rg.pc \in {"annual", "monthly"} /\ IsConstant(rg.series) =>
        \A i \in 1..Len(rg.labels) : rg.labels[i] # 1


-----------------------------------------------------------------------------
(* stats.rs: the ruin surface.                                             *)

\* one month of the replay: the balance after it, and whether it breached
ReplayMonth(bal, flow, lump, growth_factor) ==
    LET grown == RMul(RAdd(bal, RAdd(flow, lump)), growth_factor)
    IN  IF RLe(grown, Zero) THEN [balance |-> Zero, ruined |-> TRUE]
        ELSE [balance |-> grown, ruined |-> FALSE]

\* the month loop of one sim from month (1-based) on: TRUE iff the sim counts
\* as ruined
RECURSIVE ReplayRuined(_, _, _, _, _, _, _)
ReplayRuined(factors, monthly_net_flow, lump_sum_by_month, month, months, bal, ruined) ==
    IF month > months THEN ruined \/ RLe(bal, Zero)
    ELSE LET step == ReplayMonth(bal, monthly_net_flow[month],
                                 lump_sum_by_month[month], factors[month])
         IN  ReplayRuined(factors, monthly_net_flow, lump_sum_by_month,
                          month + 1, months, step.balance, ruined \/ step.ruined)

replay_ruin_probability(growth, monthly_net_flow, lump_sum_by_month, current_savings, sample_count, months) ==
    LET ruin_count ==
            Cardinality({s \in 1..sample_count :
                ReplayRuined(growth[s], monthly_net_flow, lump_sum_by_month,
                             1, months, current_savings, FALSE)})
    IN  Q(ruin_count, Max(sample_count, 1))

spending_multipliers == <<Q(4, 5), Q(9, 10), One, Q(11, 10), Q(6, 5)>>

offsets == <<RInt(-6), RInt(-3), Zero, RInt(3), RInt(6)>>

\* a set of naturals as an ascending sequence: sort_unstable, then dedup
RECURSIVE Ascending(_)
Ascending(S) ==
    IF S = {} THEN <<>>
    ELSE LET least == CHOOSE x \in S : \A y \in S : x <= y
         IN  <<least>> \o Ascending(S \ {least})

\* the column age of one offset; a negative value cast to usize is 0
RetirementAgeOf(inp, offset) ==
    LET age == RAdd(inp.retirement_age, offset)
    IN  Max(0, RRound(RMin(RSub(inp.simulate_until_age, One),
                           RMax(RAdd(inp.current_age, One), age))))

RetirementAges(inp) ==
    Ascending({RetirementAgeOf(inp, offsets[i]) : i \in 1..Len(offsets)})

MaxSampledScenarios == 800

ScaledSpending(spending_periods, multiplier) ==
    [i \in 1..Len(spending_periods) |->
        [spending_periods[i] EXCEPT !.yearly_amount = RMul(@, multiplier)]]

\* every source ends at the cell's age, whatever its id
AdjustedIncomeOfAll(income_sources, ret_age) ==
    [i \in 1..Len(income_sources) |-> [income_sources[i] EXCEPT !.to_age = RInt(ret_age)]]

AdjustedIncome(income_sources, ret_age) ==
    [i \in 1..Len(income_sources) |->
        IF income_sources[i].id = "is-default"
        THEN [income_sources[i] EXCEPT !.to_age = RInt(ret_age)]
        ELSE income_sources[i]]

\* adjusted_input: the clone of the input with the cell's retirement age
AdjustedInput(inp, ret_age) == [inp EXCEPT !.retirement_age = RInt(ret_age)]

\* the cashflow arrays of one cell
CellArrays(c, multiplier, ret_age) ==
    build_cashflow_arrays(AdjustedInput(c.input, ret_age),
                          ScaledSpending(c.spending_periods, multiplier),
                          AdjustedIncome(c.income_sources, ret_age),
                          c.lump_sum_events, c.months)

\* one cell of the grid
RuinCell(c, multiplier, ret_age) ==
    LET cell_arrays == CellArrays(c, multiplier, ret_age)
    IN  replay_ruin_probability(c.growth_factors, cell_arrays.monthly_net_flow,
                                cell_arrays.lump_sum_by_month,
                                c.input.current_savings,
                                Min(c.sim_count, MaxSampledScenarios), c.months)

\* c carries the arguments: input, spending_periods, income_sources,
\* lump_sum_events, growth_factors, months, sim_count
build_ruin_surface(c) ==
    LET retirement_ages == RetirementAges(c.input)
    IN  [retirement_ages |-> retirement_ages,
         spending_multipliers |-> spending_multipliers,
         ruin_probabilities |->
            [a \in 1..Len(spending_multipliers) |->
                [j \in 1..Len(retirement_ages) |->
                    RuinCell(c, spending_multipliers[a], retirement_ages[j])]]]


-----------------------------------------------------------------------------
(* SpecRuin: build_ruin_surface applied to drawn arguments.                *)

MaxRuinMonths == 14

\* what one month's recorded factor can be: (1 + return after tax) * fee
\* factor / (1 + monthly_inflation), negative when exactly one of the two
\* sums is
RuinFactors == {RInt(-1), Half, RInt(2)}

\* a trajectory of ones with one month, the first or the last, set to g
RuinTrajectories(months) ==
    { [k \in 1..months |-> IF k = at THEN g ELSE One] :
        g \in RuinFactors, at \in {1, months} }

\* spending of 200 in the first month only
FirstMonthBill == Period("sp-1", Age30, Q(361, 12), RInt(2400), "Some(true)")

\* a salary of 100 a month until retirement
Salary == Period("is-default", Age30, RInt(65), RInt(1200), "None")

\* a rent of 100 a month received whatever the retirement age
Rent == Period("is-1", Age30, RInt(65), RInt(1200), "None")

RuinInput(current_savings) ==
    [current_age |-> Age30, inflation_root |-> One,
     current_savings |-> current_savings,
     retirement_age |-> RInt(33), simulate_until_age |-> RInt(40)]

\* ages around the grid: whole and fractional, a retirement age below, inside
\* and above the horizon, a horizon of ten years and of one
RuinAges ==
    { [current_age |-> current_age, retirement_age |-> retirement_age,
       simulate_until_age |-> simulate_until_age] :
         current_age \in {Age30, Q(121, 4), Q(61, 2)},
         retirement_age \in {RInt(20), RInt(33), Q(71, 2), RInt(50)},
         simulate_until_age \in {RInt(40), Q(81, 2), Q(161, 4), RInt(32), RInt(31)} }

RuinInputAt(ages, current_savings) ==
    [current_age |-> ages.current_age, inflation_root |-> One,
     current_savings |-> current_savings,
     retirement_age |-> ages.retirement_age,
     simulate_until_age |-> ages.simulate_until_age]

RuinCalls ==
    { [input |-> RuinInput(savings), spending_periods |-> sp, income_sources |-> inc,
       lump_sum_events |-> ev, growth_factors |-> <<g1, g2>>,
       months |-> MaxRuinMonths, sim_count |-> 2] :
         savings \in {Zero, RInt(200), RInt(3000)},
         sp \in {<<>>, <<FirstMonthBill>>, <<Living>>},
         inc \in {<<>>, <<Salary>>},
         ev \in {<<>>, <<Lump(Q(361, 12), RInt(-50))>>},
         g1 \in RuinTrajectories(MaxRuinMonths),
         g2 \in RuinTrajectories(MaxRuinMonths) }
    \cup
    { [input |-> RuinInputAt(ages, RInt(200)), spending_periods |-> <<Living>>,
       income_sources |-> <<Salary>>, lump_sum_events |-> <<>>,
       growth_factors |-> <<g, g>>, months |-> MaxRuinMonths, sim_count |-> sim_count] :
         ages \in RuinAges, g \in RuinTrajectories(MaxRuinMonths), sim_count \in {0, 2} }
    \cup
    { [input |-> RuinInput(RInt(3000)), spending_periods |-> <<Living>>,
       income_sources |-> inc, lump_sum_events |-> ev, growth_factors |-> <<g1, g2>>,
       months |-> MaxRuinMonths, sim_count |-> 2] :
         inc \in {<<Rent>>, <<Rent, Salary>>},
         ev \in {<<>>, <<Lump(Q(361, 12), RInt(-50))>>},
         g1 \in RuinTrajectories(MaxRuinMonths),
         g2 \in RuinTrajectories(MaxRuinMonths) }

RsInit == \E c \in RuinCalls : rs = [pc |-> "call", call |-> c]

\* one call of build_ruin_surface
RsBuild ==
    /\ rs.pc = "call"
    /\ rs' = [pc |-> "done", call |-> rs.call, surface |-> build_ruin_surface(rs.call)]

RuinInit ==
    /\ DrvIdle
    /\ fi = FiIdle
    /\ cf = CfIdle
    /\ rg = RgIdle
    /\ RsInit
    /\ det = DetIdle
    /\ AuxIdle

RuinNext == RsBuild /\ UNCHANGED <<drv, fi, cf, rg, det, aux>>

SpecRuin == RuinInit /\ [][RuinNext]_vars

\* C4: in every retirement-age column of the ruin surface the ruin
\* probability is non-decreasing in the spending multiplier, whatever the
\* growth-factor trajectories, spending periods, income sources and lump sums.
C4_RuinMonotoneInSpending ==
    rs.pc = "done" =>
        \A j \in 1..Len(rs.surface.retirement_ages) :
            \A a, b \in 1..Len(rs.surface.spending_multipliers) :
                a < b => RLe(rs.surface.ruin_probabilities[a][j],
                             rs.surface.ruin_probabilities[b][j])


-----------------------------------------------------------------------------
(* calculations.rs: RandomSource.                                          *)
(*                                                                         *)
(* A u32 is a tuple of four bytes, least significant first, so that every  *)
(* intermediate value stays inside 32-bit signed integers.  The f64       *)
(* that random() returns is final_val / 2^32; it is carried as the four    *)
(* bytes of final_val.                                                     *)

\* (n as i64) as u32, for an integer n: floored division gives the two's
\* complement of a negative n
U32(n) == [i \in 1..4 |-> (n \div (256 ^ (i - 1))) % 256]

ByteAt(a, i) == IF i \in 1..4 THEN a[i] ELSE 0

RECURSIVE AddCarry(_, _, _)
AddCarry(a, b, i) ==
    IF i = 0 THEN 0 ELSE (a[i] + b[i] + AddCarry(a, b, i - 1)) \div 256

wrapping_add(a, b) == [i \in 1..4 |-> (a[i] + b[i] + AddCarry(a, b, i - 1)) % 256]

RECURSIVE MulColumn(_, _, _, _)
MulColumn(a, b, i, j) ==
    IF j > i THEN 0 ELSE a[j] * b[i + 1 - j] + MulColumn(a, b, i, j + 1)

RECURSIVE MulCarry(_, _, _)
MulCarry(a, b, i) ==
    IF i = 0 THEN 0 ELSE (MulColumn(a, b, i, 1) + MulCarry(a, b, i - 1)) \div 256

wrapping_mul(a, b) ==
    [i \in 1..4 |-> (MulColumn(a, b, i, 1) + MulCarry(a, b, i - 1)) % 256]

RECURSIVE XorBits(_, _, _)
XorBits(x, y, n) ==
    IF n = 0 THEN 0 ELSE ((x + y) % 2) + 2 * XorBits(x \div 2, y \div 2, n - 1)

RECURSIVE OrBits(_, _, _)
OrBits(x, y, n) ==
    IF n = 0 THEN 0
    ELSE (IF x % 2 = 1 \/ y % 2 = 1 THEN 1 ELSE 0) + 2 * OrBits(x \div 2, y \div 2, n - 1)

BitXor(a, b) == [i \in 1..4 |-> XorBits(a[i], b[i], 8)]

BitOr(a, b) == [i \in 1..4 |-> OrBits(a[i], b[i], 8)]

\* a >> k for 0 <= k < 32
ShiftRight(a, k) ==
    LET q == k \div 8
        r == k % 8
    IN  [i \in 1..4 |-> (ByteAt(a, i + q) \div (2 ^ r))
                        + (ByteAt(a, i + q + 1) % (2 ^ r)) * (2 ^ (8 - r))]

\* 0x6D2B79F5
Mulberry32Increment == <<245, 121, 43, 109>>

\* state.wrapping_add(0x6D2B79F5)
NextState(state) == wrapping_add(state, Mulberry32Increment)

\* final_val, from the state after the addition
FinalVal(state) ==
    LET js_imul1 == wrapping_mul(BitXor(state, ShiftRight(state, 15)),
                                 BitOr(U32(1), state))
        js_imul2 == wrapping_mul(BitXor(js_imul1, ShiftRight(js_imul1, 7)),
                                 BitOr(U32(61), js_imul1))
        t_val == BitXor(js_imul1, wrapping_add(js_imul1, js_imul2))
    IN  BitXor(t_val, ShiftRight(t_val, 14))


\* Option<T>: None is the empty tuple, Some(x) the tuple of x
None == <<>>

Some(x) == <<x>>

\* a constructor that takes no seed
newUnseeded(seed) == [state |-> None, spare_normal |-> None]

\* an i64 holds the integers of magnitude below 2^63 (and -2^63)
I64Bits == 63

\* 0xFFFFFFFF, the low word of i64::MAX
AllOnes == <<255, 255, 255, 255>>

\* (s.round() as i64) as u32 for s = value * 2^exponent, value a whole number
\* and exponent in 33..64: the low word of s is 0; the cast to i64 saturates,
\* to i64::MAX (low word 0xFFFFFFFF) from 2^63 on and to i64::MIN (low word
\* 0) below -2^63
ScaledSeedWord(value, exponent) ==
    IF value > 0 /\ (exponent >= I64Bits \/ value >= 2 ^ (I64Bits - exponent))
    THEN AllOnes
    ELSE U32(0)

\* (s.round() as i64) as u32; a seed beyond the 32-bit integers carries its
\* power of two in the field exponent
SeedWord(seed) ==
    IF "exponent" \in DOMAIN seed THEN ScaledSeedWord(RRound(seed.value), seed.exponent)
    ELSE U32(RRound(seed.value))

\* RandomSource::new: seed is None or Some([finite, value])
new(seed) ==
    [state |-> IF seed # None /\ seed[1].finite THEN Some(SeedWord(seed[1]))
               ELSE None,
     spare_normal |-> None]

\* what Math::random() may return, over 2^32
MathRandomValues == {U32(0), <<0, 0, 0, 64>>, <<0, 0, 0, 192>>}

\* random(): the set of its outcomes, each the source afterwards and the
\* value returned (over 2^32)
random(rng) ==
    IF rng.state # None
    THEN LET state == NextState(rng.state[1])
         IN  {[rng |-> [rng EXCEPT !.state = Some(state)], value |-> FinalVal(state)]}
    ELSE {[rng |-> rng, value |-> v] : v \in MathRandomValues}

\* while u == 0.0 { u = self.random(); }: the outcomes on leaving the loop
RECURSIVE DrawNonZero(_)
DrawNonZero(rng) ==
    IF rng.state = None THEN {o \in random(rng) : o.value # U32(0)}
    ELSE LET o == CHOOSE x \in random(rng) : TRUE
         IN  IF o.value # U32(0) THEN {o} ELSE DrawNonZero(o.rng)

\* the two Box-Muller scores of (u, v) are kept as terms: fn is "cos" for z0
\* and "sin" for z1
NoScore == [fn |-> "none", u |-> U32(0), v |-> U32(0)]

BoxMuller(fn, u, v) == [fn |-> fn, u |-> u, v |-> v]

\* normal(mean, std): the set of its outcomes; the value is mean + std * z
normal(rng, mean, std) ==
    IF RLe(std, Zero)
    THEN {[rng |-> rng, value |-> [mean |-> mean, std |-> Zero, z |-> NoScore]]}
    ELSE IF rng.spare_normal # None
    THEN {[rng |-> [rng EXCEPT !.spare_normal = None],
           value |-> [mean |-> mean, std |-> std, z |-> rng.spare_normal[1]]]}
    ELSE UNION { { [rng |-> [ov.rng EXCEPT
                                !.spare_normal = Some(BoxMuller("sin", ou.value, ov.value))],
                    value |-> [mean |-> mean, std |-> std,
                               z |-> BoxMuller("cos", ou.value, ov.value)]] :
                   ov \in DrawNonZero(ou.rng) } :
                 ou \in DrawNonZero(rng) }

\* floor(value / 2^32 * len) for the value of random() and an integer len
RECURSIVE ScaleCarry(_, _, _)
ScaleCarry(value, len, i) ==
    IF i = 0 THEN 0 ELSE (value[i] * len + ScaleCarry(value, len, i - 1)) \div 256

FloorScale(value, len) == ScaleCarry(value, len, 4)

\* random() < p for a rational p = n / d: value * d < n * 2^32
RandomLess(value, p) == FloorScale(value, p[2]) < p[1]

-----------------------------------------------------------------------------
(* engine.rs: the regime chain.                                            *)

MIN_STATE_PROBABILITY == Q(1, 1000)

clamp_transition_probabilityUnclamped(value) == value

clamp_transition_probability(value) ==
    clamp(value, MIN_STATE_PROBABILITY, RSub(One, MIN_STATE_PROBABILITY))

\* v <= 1e-9, evaluated without leaving the 32-bit integers
AtMostTiny(v) == v[1] <= 0 \/ (v[1] < 3 /\ v[1] * 1000000000 <= v[2])

get_growth_stationary_probability(stay_growth, stay_crisis) ==
    LET denominator == RSub(RSub(RInt(2), stay_growth), stay_crisis)
    IN  IF AtMostTiny(denominator) THEN Half
        ELSE RDiv(RSub(One, stay_crisis), denominator)

\* the state that initial_regime_state returns on the drawn value
InitialRegimeOn(value, stay_growth, stay_crisis) ==
    LET growth_probability ==
            clamp_transition_probability(
                get_growth_stationary_probability(stay_growth, stay_crisis))
    IN  IF RandomLess(value, growth_probability) THEN 0 ELSE 1

\* the state that transition_regime_state returns on the drawn value
TransitionOn(value, current_state, stay_growth, stay_crisis) ==
    IF current_state = 0
    THEN IF RandomLess(value, stay_growth) THEN 0 ELSE 1
    ELSE IF RandomLess(value, stay_crisis) THEN 1 ELSE 0

\* pool[random_idx.min(pool.len().saturating_sub(1))]: the index taken
PoolIndexOn(value, len) == Min(FloorScale(value, len), Max(len - 1, 0))


-----------------------------------------------------------------------------
(* SpecDet: the entry point run twice on the same inputs, the second run   *)
(* after the first.  A run is followed through its uses of the random      *)
(* source, in the order of run_monte_carlo_simulation: history synthesis,  *)
(* then per simulation the initial regime, the first pool draw, and per    *)
(* month the transition, the pool draw, the overlay and the inflation.     *)
(* Every other value of a run is computed from the inputs and these draws. *)

\* stand-in for the 120 synthesised years
MaxHistoryYears == 2

MaxDetMonths == 13

FiniteSeed(q) == Some([finite |-> TRUE, value |-> q])

NonFiniteSeed == Some([finite |-> FALSE, value |-> Zero])

RunStart ==
    [at |-> "new", rng |-> [state |-> None, spare_normal |-> None],
     year |-> 0, k |-> 0, sim |-> 0, m |-> 0, regime_state |-> 0,
     regime_changed |-> FALSE, block_remaining |-> 0, trace |-> <<>>]

DetCall(seed, history_given, calibration, historical, months, sim_count) ==
    [seed |-> seed, history_given |-> history_given,
     use_monthly_calibration |-> calibration,
     use_historical_bootstrap |-> historical,
     stay_growth |-> Q(7, 8), stay_crisis |-> Q(1, 2),
     monthly_markov |-> <<Q(3, 4), Q(1, 4)>>,
     pool_len |-> <<3, 2>>, block_length |-> 2, safe_df |-> 5,
     years |-> MaxHistoryYears, months |-> months, sim_count |-> sim_count]

DetCalls ==
    { DetCall(seed, given, calibration, historical, months, 1) :
        seed \in {FiniteSeed(RInt(42)), FiniteSeed(RInt(-1))},
        given \in BOOLEAN, calibration \in BOOLEAN, historical \in BOOLEAN,
        months \in {1, MaxDetMonths} }
    \cup
    { DetCall(seed, given, FALSE, FALSE, 1, 1) :
        seed \in {FiniteSeed(Zero), FiniteSeed(Q(3, 2))}, given \in BOOLEAN }
    \cup
    { DetCall(FiniteSeed(RInt(42)), TRUE, calibration, FALSE, 2, 2) :
        calibration \in BOOLEAN }
    \cup
    { DetCall(seed, TRUE, FALSE, FALSE, 1, 1) : seed \in {None, NonFiniteSeed} }

DetInit == \E c \in DetCalls : det = [pc |-> "runs", call |-> c, runs |-> <<RunStart, RunStart>>]

\* the run that is executing: the second starts when the first is done
Active == IF det.runs[1].at = "done" THEN 2 ELSE 1

Run == det.runs[Active]

\* one use of the source, recorded with the source as it is left
Drawn(r, rng, n, z) ==
    [r EXCEPT !.rng = rng,
              !.trace = Append(@, [at |-> r.at, rng |-> rng, n |-> n, z |-> z])]

\* let mut rng = RandomSource::new(input.seed)
DetNew ==
    /\ det.pc = "runs" /\ Run.at = "new"
    /\ det' = [det EXCEPT !.runs[Active] =
                  [Run EXCEPT !.rng = new(det.call.seed),
                              !.at = IF det.call.history_given THEN "initial_regime"
                                     ELSE "history_regime"]]

\* build_bootstrap_history: the regime of one year
DetHistoryRegime ==
    /\ det.pc = "runs" /\ Run.at = "history_regime"
    /\ \E o \in random(Run.rng) :
         LET stay_growth == clamp_transition_probability(det.call.stay_growth)
             stay_crisis == clamp_transition_probability(det.call.stay_crisis)
             state == IF Run.year = 0
                      THEN InitialRegimeOn(o.value, stay_growth, stay_crisis)
                      ELSE TransitionOn(o.value, Run.regime_state, stay_growth, stay_crisis)
         IN  det' = [det EXCEPT !.runs[Active] =
                        [Drawn(Run, o.rng, state, NoScore) EXCEPT
                            !.regime_state = state, !.k = 0, !.at = "history_normal"]]

\* build_bootstrap_history: one normal of draw_student_t, 1 + safe_df a year
DetHistoryNormal ==
    /\ det.pc = "runs" /\ Run.at = "history_normal"
    /\ \E o \in normal(Run.rng, Zero, One) :
         LET last == Run.k + 1 = 1 + det.call.safe_df
         IN  det' = [det EXCEPT !.runs[Active] =
                        [Drawn(Run, o.rng, 0, o.value.z) EXCEPT
                            !.k = Run.k + 1,
                            !.year = IF last THEN Run.year + 1 ELSE Run.year,
                            !.at = IF ~last THEN "history_normal"
                                   ELSE IF Run.year + 1 < det.call.years
                                        THEN "history_regime"
                                        ELSE "initial_regime"]]


\* the pool of the regime: its length
PoolLen(regime_state) == det.call.pool_len[regime_state + 1]

\* the start of one simulation: initial_regime_state on the monthly chain
DetInitialRegime ==
    /\ det.pc = "runs" /\ Run.at = "initial_regime"
    /\ \E o \in random(Run.rng) :
         LET state == InitialRegimeOn(o.value, det.call.monthly_markov[1],
                                      det.call.monthly_markov[2])
         IN  det' = [det EXCEPT !.runs[Active] =
                        [Drawn(Run, o.rng, state, NoScore) EXCEPT
                            !.regime_state = state, !.m = 0, !.block_remaining = 0,
                            !.at = IF det.call.use_monthly_calibration
                                   THEN "transition" ELSE "first_pool"]]

\* if !use_monthly_calibration: the first annual return of the simulation
DetFirstPool ==
    /\ det.pc = "runs" /\ Run.at = "first_pool"
    /\ \E o \in random(Run.rng) :
         det' = [det EXCEPT !.runs[Active] =
                    [Drawn(Run, o.rng, PoolIndexOn(o.value, PoolLen(Run.regime_state)),
                           NoScore) EXCEPT !.at = "transition"]]

\* the head of the month loop: the transition, drawn from the second month on
DetTransition ==
    /\ det.pc = "runs" /\ Run.at = "transition"
    /\ IF Run.m > 0
       THEN \E o \in random(Run.rng) :
              LET next == TransitionOn(o.value, Run.regime_state,
                                       det.call.monthly_markov[1],
                                       det.call.monthly_markov[2])
              IN  det' = [det EXCEPT !.runs[Active] =
                             [Drawn(Run, o.rng, next, NoScore) EXCEPT
                                 !.regime_changed = (next # Run.regime_state),
                                 !.regime_state = next, !.at = "pool"]]
       ELSE det' = [det EXCEPT !.runs[Active] =
                       [Run EXCEPT !.regime_changed = TRUE, !.at = "pool"]]

\* where the month goes after the return is chosen
AfterPool ==
    IF det.call.use_monthly_calibration \/ det.call.use_historical_bootstrap
    THEN "inflation" ELSE "overlay"

\* the month's return: a new block or a new year draws an index
DetPool ==
    /\ det.pc = "runs" /\ Run.at = "pool"
    /\ LET draws == IF det.call.use_monthly_calibration
                    THEN Run.block_remaining <= 0 \/ Run.regime_changed
                    ELSE Run.m > 0 /\ Run.m % 12 = 0
           remaining == IF ~det.call.use_monthly_calibration THEN Run.block_remaining
                        ELSE IF draws THEN det.call.block_length - 1
                        ELSE Run.block_remaining - 1
       IN  IF draws
           THEN \E o \in random(Run.rng) :
                  det' = [det EXCEPT !.runs[Active] =
                             [Drawn(Run, o.rng,
                                    PoolIndexOn(o.value, PoolLen(Run.regime_state)),
                                    NoScore) EXCEPT
                                 !.block_remaining = remaining, !.at = AfterPool]]
           ELSE det' = [det EXCEPT !.runs[Active] =
                           [Run EXCEPT !.block_remaining = remaining, !.at = AfterPool]]

\* the overlay of the parametric mode: draw_monthly_return_shaped
DetOverlay ==
    /\ det.pc = "runs" /\ Run.at = "overlay"
    /\ \E o \in normal(Run.rng, Zero, One) :
         det' = [det EXCEPT !.runs[Active] =
                    [Drawn(Run, o.rng, 0, o.value.z) EXCEPT !.at = "inflation"]]

\* the month's inflation: draw_monthly_return_shaped; then the next month,
\* the next simulation, or the end of the run
DetInflation ==
    /\ det.pc = "runs" /\ Run.at = "inflation"
    /\ \E o \in normal(Run.rng, Zero, One) :
         LET more_months == Run.m + 1 < det.call.months
             more_sims == Run.sim + 1 < det.call.sim_count
         IN  det' = [det EXCEPT !.runs[Active] =
                        [Drawn(Run, o.rng, 0, o.value.z) EXCEPT
                            !.m = Run.m + 1,
                            !.sim = IF more_months THEN Run.sim ELSE Run.sim + 1,
                            !.at = IF more_months THEN "transition"
                                   ELSE IF more_sims THEN "initial_regime"
                                   ELSE "done"]]

DetermInit ==
    /\ DrvIdle
    /\ fi = FiIdle
    /\ cf = CfIdle
    /\ rg = RgIdle
    /\ rs = RsIdle
    /\ DetInit
    /\ AuxIdle

DetermNext ==
    \/ DetNew /\ UNCHANGED <<drv, fi, cf, rg, rs, aux>>
    \/ DetHistoryRegime /\ UNCHANGED <<drv, fi, cf, rg, rs, aux>>
    \/ DetHistoryNormal /\ UNCHANGED <<drv, fi, cf, rg, rs, aux>>
    \/ DetInitialRegime /\ UNCHANGED <<drv, fi, cf, rg, rs, aux>>
    \/ DetFirstPool /\ UNCHANGED <<drv, fi, cf, rg, rs, aux>>
    \/ DetTransition /\ UNCHANGED <<drv, fi, cf, rg, rs, aux>>
    \/ DetPool /\ UNCHANGED <<drv, fi, cf, rg, rs, aux>>
    \/ DetOverlay /\ UNCHANGED <<drv, fi, cf, rg, rs, aux>>
    \/ DetInflation /\ UNCHANGED <<drv, fi, cf, rg, rs, aux>>

SpecDet == DetermInit /\ [][DetermNext]_vars

SeedIsFinite == det.call.seed # None /\ det.call.seed[1].finite

\* C3: two runs on the same inputs with the same finite seed give identical
\* results: the second run's uses of the random source, each with the PRNG
\* state it leaves and the value it yields, repeat the first run's in the
\* same order, and a finished second run equals the first.
C3_SameSeedSameRun ==
    det.pc = "runs" /\ SeedIsFinite =>
        /\ Len(det.runs[2].trace) <= Len(det.runs[1].trace)
        /\ \A i \in 1..Len(det.runs[2].trace) :
               det.runs[2].trace[i] = det.runs[1].trace[i]
        /\ det.runs[2].at = "done" => det.runs[2] = det.runs[1]

C3_Witness ==
    /\ det.pc = "runs" /\ SeedIsFinite
    /\ det.runs[1].at = "done" /\ det.runs[2].at = "done"
    /\ det.call.months = MaxDetMonths
    /\ \E i, j, l \in 1..Len(det.runs[2].trace) :
          /\ det.runs[2].trace[i].at = "history_normal"
          /\ det.runs[2].trace[j].at = "pool"
          /\ det.runs[2].trace[l].at = "inflation"
          /\ det.runs[2].trace[l].z.fn = "sin"
          /\ l > 1 /\ det.runs[2].trace[l - 1].at = "overlay"


-----------------------------------------------------------------------------
(* engine2.rs: the pools and the stay probabilities of a labelled history. *)

\* the positions (1-based) of the history that carry the label
RECURSIVE PositionsIn(_, _, _, _)
PositionsIn(labels, label, lo, hi) ==
    IF lo > hi THEN <<>>
    ELSE IF lo = hi
    THEN IF (labels[lo] = 1) = (label = 1) THEN <<lo>> ELSE <<>>
    ELSE LET mid == (lo + hi) \div 2
         IN  PositionsIn(labels, label, lo, mid) \o PositionsIn(labels, label, mid + 1, hi)

LabelledPositions(labels, label) == PositionsIn(labels, label, 1, Len(labels))

Take(s, count) == SubSeq(s, 1, Min(count, Len(s)))

\* the lengths up to 1000 at which the f64 product len * 0.35 is below the
\* integer 7 * len / 20: 0.35 is stored as 0.34999999999999997779..., and
\* at these lengths the product rounds to the double just below the integer
RoundsBelow35 == {180, 340, 360, 660, 680, 700, 720}

\* 4.max((len as f64 * 0.35).floor() as usize)
AnnualTakeCount(len) ==
    Max(4, RFloor(RMul(RInt(len), Q(7, 20))) - IF len \in RoundsBelow35 THEN 1 ELSE 0)

\* 12.max((len as f64 * 0.3).floor() as usize); up to 1000 the f64 product
\* has the floor of 3 * len / 10
MonthlyTakeCount(len) == Max(12, RFloor(RMul(RInt(len), Q(3, 10))))

\* the positions of the history, sorted by the value there (a stable sort)
PositionsByValue(returns) ==
    LET sorted == SortStable([i \in 1..Len(returns) |-> [key |-> returns[i], index |-> i]])
    IN  [i \in 1..Len(returns) |-> sorted[i].index]

\* labels longer than the history index it out of range: the call panics
bootstrap_pool_by_regime(annual_returns, labels) ==
    IF Len(labels) > Len(annual_returns) THEN [panic |-> TRUE]
    ELSE
    LET growth == LabelledPositions(labels, 0)
        crisis == LabelledPositions(labels, 1)
        by_value == PositionsByValue(annual_returns)
        sorted == [i \in 1..Len(by_value) |-> annual_returns[by_value[i]]]
    IN  [panic |-> FALSE,
         growth |-> IF growth # <<>>
                    THEN [i \in 1..Len(growth) |-> annual_returns[growth[i]]]
                    ELSE annual_returns,
         crisis |-> IF crisis # <<>>
                    THEN [i \in 1..Len(crisis) |-> annual_returns[crisis[i]]]
                    ELSE Take(sorted, AnnualTakeCount(Len(annual_returns)))]

\* the pools hold indices, 0-based as in the code
bootstrap_indices_by_regime_monthly(monthly_returns, labels) ==
    LET growth == LabelledPositions(labels, 0)
        crisis == LabelledPositions(labels, 1)
        by_value == PositionsByValue(monthly_returns)
    IN  [growth |-> IF growth # <<>>
                    THEN [i \in 1..Len(growth) |-> growth[i] - 1]
                    ELSE [i \in 1..Len(monthly_returns) |-> i - 1],
         crisis |-> IF crisis # <<>>
                    THEN [i \in 1..Len(crisis) |-> crisis[i] - 1]
                    ELSE Take([i \in 1..Len(by_value) |-> by_value[i] - 1],
                              MonthlyTakeCount(Len(monthly_returns)))]

\* the pairs (prev, curr) of consecutive labels that start in the state
\* (growth is label 0, crisis every other label) and stay in it
PairsFrom(labels, growth) ==
    {i \in 2..Len(labels) : (labels[i - 1] = 0) = growth}

StayingPairs(labels, growth) ==
    {i \in PairsFrom(labels, growth) : labels[i] = IF growth THEN 0 ELSE 1}

DefaultStayGrowth == Q(22, 25)

DefaultStayCrisis == Q(18, 25)

\* the pair (stay_growth, stay_crisis)
estimate_markov_stay_probabilities(labels) ==
    LET growth_total == Cardinality(PairsFrom(labels, TRUE))
        crisis_total == Cardinality(PairsFrom(labels, FALSE))
    IN  << clamp_transition_probability(
               IF growth_total > 0
               THEN Q(Cardinality(StayingPairs(labels, TRUE)), growth_total)
               ELSE DefaultStayGrowth),
           clamp_transition_probability(
               IF crisis_total > 0
               THEN Q(Cardinality(StayingPairs(labels, FALSE)), crisis_total)
               ELSE DefaultStayCrisis) >>


-----------------------------------------------------------------------------
(* simulation.rs, lines 222-250: the monthly calibration of a run.         *)

\* effective_monthly_history.len() >= 120
MinCalibrationMonths == 120

\* x.powf(1.0 / 12.0), on the values whose twelfth root is one of these (the
\* twelfth powers of other fractions leave [0.001, 0.999] or the integers
\* that compare them with its ends)
\* x.powf(1.0 / 12.0) for x >= 0, on a grid: the largest grid point whose
\* 12th power is at most x.  The root is exact when it is on the grid; an
\* irrational root is kept to the grid point below it.
Root12Grid == {Zero, Q(1, 2), Q(2, 3), One}

AtMostRoot12(r, x) == RPow(r, 12) = x \/ RLe(RPow(r, 12), x)

Root12(x) ==
    CHOOSE r \in Root12Grid :
        /\ AtMostRoot12(r, x)
        /\ \A other \in Root12Grid : AtMostRoot12(other, x) => RLe(other, r)

\* c carries effective_monthly_history and the regime model's stay_growth and
\* stay_crisis
MonthlyCalibration(c) ==
    LET stay_growth == clamp_transition_probability(c.stay_growth)
        stay_crisis == clamp_transition_probability(c.stay_crisis)
        use_monthly_calibration ==
            Len(c.effective_monthly_history) >= MinCalibrationMonths
        monthly_detected_regimes ==
            IF use_monthly_calibration
            THEN detect_regimes_monthly(c.effective_monthly_history)
            ELSE <<>>
    IN  [annual_markov |-> <<stay_growth, stay_crisis>>,
         use_monthly_calibration |-> use_monthly_calibration,
         monthly_detected_regimes |-> monthly_detected_regimes,
         monthly_regime_bootstrap_indices |->
             IF use_monthly_calibration
             THEN bootstrap_indices_by_regime_monthly(c.effective_monthly_history,
                                                      monthly_detected_regimes)
             ELSE [growth |-> <<>>, crisis |-> <<>>],
         monthly_markov |->
             IF use_monthly_calibration
             THEN estimate_markov_stay_probabilities(monthly_detected_regimes)
             ELSE << clamp_transition_probability(Root12(stay_growth)),
                     clamp_transition_probability(Root12(stay_crisis)) >>]

-----------------------------------------------------------------------------
(* SpecCalib: histories with label vectors of their length; the pools and  *)
(* the stay probabilities of each, and the calibration a run makes of it.  *)

\* the longest history whose label vectors are all drawn
MaxLabelled == 5

\* the documented history: 480 months of zeros
ZeroMonths == [i \in 1..480 |-> Zero]

\* a history of the calibration length that repeats a pattern of mean 0
Cyclic(pattern) ==
    [i \in 1..MinCalibrationMonths |-> pattern[((i - 1) % Len(pattern)) + 1]]

\* 180 entries of zero
ZeroYears == [i \in 1..180 |-> Zero]

LongHistories ==
    { ZeroMonths,
      ZeroYears,
      Cyclic(<<Q(-1, 2), Q(1, 2)>>),
      Cyclic(<<Q(-1, 2), Q(1, 4), Q(1, 4)>>),
      Cyclic(<<Q(1, 2), Zero, Q(-1, 2), Zero>>) }

\* the stay probability of the other calls
DefaultStay == RPow(Q(2, 3), 12)

\* regime_model.stay_growth and stay_crisis, in and out of [0, 1]
CalStays == {Zero, DefaultStay, One, Q(3, 2)}

LabelPatterns(len) ==
    {[i \in 1..len |-> 0], [i \in 1..len |-> 1], [i \in 1..len |-> IF i % 3 = 0 THEN 1 ELSE 0]}

CalCall(h, l, sg, sc) ==
    [effective_monthly_history |-> h, labels |-> l, stay_growth |-> sg, stay_crisis |-> sc]

CalCalls ==
    { CalCall(h, l, DefaultStay, DefaultStay) :
        h \in SeqsUpTo({Q(-1, 10), Q(1, 100)}, MaxLabelled) \ {<<>>},
        l \in SeqsUpTo({0, 1}, MaxLabelled) }
    \cup
    UNION { { CalCall(h, l, DefaultStay, DefaultStay) : l \in LabelPatterns(Len(h)) } :
            h \in LongHistories }
    \cup
    { CalCall(<<Zero>>, <<l>>, sg, sc) : l \in {0, 1}, sg \in CalStays, sc \in CalStays }

CalInit ==
    \E c \in CalCalls :
        /\ Len(c.labels) = Len(c.effective_monthly_history)
        /\ cal = [pc |-> "call", call |-> c]

\* the calibration of a run on the history
CalCalibrate ==
    /\ cal.pc = "call"
    /\ cal' = [pc |-> "calibrated", call |-> cal.call,
               result |-> MonthlyCalibration(cal.call)]

\* bootstrap_pool_by_regime on the history and the label vector
CalPools ==
    /\ cal.pc = "call"
    /\ cal' = [pc |-> "pools", call |-> cal.call,
               result |-> bootstrap_pool_by_regime(cal.call.effective_monthly_history,
                                                   cal.call.labels)]

\* bootstrap_indices_by_regime_monthly on the history and the label vector
CalIndices ==
    /\ cal.pc = "call"
    /\ cal' = [pc |-> "indices", call |-> cal.call,
               result |-> bootstrap_indices_by_regime_monthly(
                              cal.call.effective_monthly_history, cal.call.labels)]

\* estimate_markov_stay_probabilities on the label vector
CalMarkov ==
    /\ cal.pc = "call"
    /\ cal' = [pc |-> "markov", call |-> cal.call,
               result |-> estimate_markov_stay_probabilities(cal.call.labels)]

CalibInit ==
    /\ DrvIdle
    /\ fi = FiIdle
    /\ cf = CfIdle
    /\ rg = RgIdle
    /\ rs = RsIdle
    /\ det = DetIdle
    /\ CalInit
    /\ lp = LpIdle
    /\ sq = SqIdle
    /\ rnd = RndIdle
    /\ gf = GfIdle
    /\ rp = RpIdle

CalibNext ==
    \/ CalCalibrate /\ UNCHANGED <<drv, fi, cf, rg, rs, det, lp, sq, rnd, gf, rp>>
    \/ CalPools /\ UNCHANGED <<drv, fi, cf, rg, rs, det, lp, sq, rnd, gf, rp>>
    \/ CalIndices /\ UNCHANGED <<drv, fi, cf, rg, rs, det, lp, sq, rnd, gf, rp>>
    \/ CalMarkov /\ UNCHANGED <<drv, fi, cf, rg, rs, det, lp, sq, rnd, gf, rp>>

SpecCalib == CalibInit /\ [][CalibNext]_vars

\* C11: on a monthly history of 480 zeros the calibration is active, the
\* label vector has length 480, and the monthly stay probabilities the run
\* uses are the fallbacks 0.88 and 0.72.
C11_ZeroHistoryFallbackStays ==
    cal.pc = "calibrated" /\ cal.call.effective_monthly_history = ZeroMonths =>
        /\ cal.result.use_monthly_calibration
        /\ Len(cal.result.monthly_detected_regimes) = 480
        /\ cal.result.monthly_markov = <<DefaultStayGrowth, DefaultStayCrisis>>

-----------------------------------------------------------------------------
(* The stay probabilities.                                                 *)

LowestStay == Q(1, 1000)

HighestStay == Q(999, 1000)

InStayRange(p) == RLe(LowestStay, p) /\ RLe(p, HighestStay)

\* p is the ratio stay / total brought into the range, or the fallback when
\* total is 0
IsStayEstimate(p, stay, total, fallback) ==
    IF total = 0 THEN p = fallback
    ELSE LET ratio == Q(stay, total)
         IN  /\ InStayRange(ratio) => p = ratio
             /\ RLt(ratio, LowestStay) => p = LowestStay
             /\ RLt(HighestStay, ratio) => p = HighestStay

C18_WitnessRun ==
    /\ cal.pc = "calibrated"
    /\ cal.call.stay_growth = Q(3, 2)
    /\ cal.result.annual_markov[1] = HighestStay

-----------------------------------------------------------------------------
(* The bootstrap pools.                                                    *)

Count(s, v) == Cardinality({i \in DOMAIN s : s[i] = v})

NonDecreasing(s) == \A i \in 1..(Len(s) - 1) : RLe(s[i], s[i + 1])

\* min(n, max(least, floor(share * n)))
ExpectedTake(n, least, share) == Min(n, Max(least, RFloor(RMul(RInt(n), share))))

\* pool lists what at gives for the positions of the set, in their order
IsPartition(pool, positions, at(_)) ==
    /\ Len(pool) = Cardinality(positions)
    /\ \A i \in positions : pool[Cardinality({j \in positions : j <= i})] = at(i)

\* pool holds the count smallest values of history, ascending
IsSmallestValues(pool, history, count) ==
    /\ Len(pool) = count
    /\ NonDecreasing(pool)
    /\ Range(pool) \subseteq Range(history)
    /\ \A v \in Range(history) :
            Count(pool, v) =
                Min(Count(history, v),
                    Max(0, count - Cardinality({i \in DOMAIN history : RLt(history[i], v)})))

\* pool holds the 0-based indices of count smallest values of history,
\* ascending by value
IsSmallestIndices(pool, history, count) ==
    /\ Len(pool) = count
    /\ \A i, j \in DOMAIN pool : i # j => pool[i] # pool[j]
    /\ NonDecreasing([i \in DOMAIN pool |-> history[pool[i] + 1]])
    /\ \A i \in DOMAIN pool, j \in DOMAIN history :
            (j - 1) \notin Range(pool) => RLe(history[pool[i] + 1], history[j])

\* C19: for a non-empty history and a label vector of its length both pools
\* are non-empty; a non-empty partition is returned as it is; an empty crisis
\* pool becomes the min(n, max(4, floor(0.35 n))) smallest values (by index:
\* the indices of the min(n, max(12, floor(0.30 n))) smallest values), an
\* empty growth pool the whole history (all indices); every index of a pool
\* by index is below n.
C19_PoolsNonEmptyWithFallbacks ==
    LET history == cal.call.effective_monthly_history
        labels == cal.call.labels
        n == Len(history)
        growth_at == {i \in 1..n : labels[i] # 1}
        crisis_at == {i \in 1..n : labels[i] = 1}
    IN  /\ cal.pc = "pools" =>
              /\ ~cal.result.panic
              /\ cal.result.growth # <<>>
              /\ cal.result.crisis # <<>>
              /\ IF growth_at # {}
                 THEN IsPartition(cal.result.growth, growth_at, LAMBDA i : history[i])
                 ELSE cal.result.growth = history
              /\ IF crisis_at # {}
                 THEN IsPartition(cal.result.crisis, crisis_at, LAMBDA i : history[i])
                 ELSE IsSmallestValues(cal.result.crisis, history,
                                       ExpectedTake(n, 4, Q(35, 100)))
        /\ cal.pc = "indices" =>
              /\ cal.result.growth # <<>>
              /\ cal.result.crisis # <<>>
              /\ Range(cal.result.growth) \cup Range(cal.result.crisis) \subseteq 0..(n - 1)
              /\ IF growth_at # {}
                 THEN IsPartition(cal.result.growth, growth_at, LAMBDA i : i - 1)
                 ELSE cal.result.growth = [i \in 1..n |-> i - 1]
              /\ IF crisis_at # {}
                 THEN IsPartition(cal.result.crisis, crisis_at, LAMBDA i : i - 1)
                 ELSE IsSmallestIndices(cal.result.crisis, history,
                                        ExpectedTake(n, 12, Q(30, 100)))

\* the claim on the histories of a length at which the f64 product len * 0.35
\* has the floor of 7 * len / 20
C19_PoolsAwayFromRounding ==
    Len(cal.call.effective_monthly_history) \notin RoundsBelow35
        => C19_PoolsNonEmptyWithFallbacks

-----------------------------------------------------------------------------
(* simulation.rs: run_monte_carlo_simulation followed through its loops.   *)
(*                                                                         *)
(* lp.call = [input, months, retire_month, progress_callback] are the      *)
(* arguments (the cashflow arguments play no part here).  Balances are not *)
(* computed: a month is recorded by the return selected for it, by whether *)
(* the overlay was drawn for it, and the year accumulators by the months   *)
(* they compound.  A usize is an integer of the model; a value below 0     *)
(* stands for the value that wrapped around (-1 for usize::MAX).           *)

MonthsPerYear == 12

\* hist.len() >= 25
MinUserYears == 25

\* build_bootstrap_history(input, &mut rng, 120)
SynthesizedYears == 120

\* input.block_length.unwrap_or(6)
DefaultBlockLength == 6

clamp_annual_return(value) == clamp(value, Q(-19, 20), Q(6, 5))

clamp_monthly_return(value) == clamp(value, Q(-3, 5), Q(3, 5))

\* f64::sqrt where the root is rational: the square roots of the variances
\* of the histories drawn
RSqrtGrid == {Zero, Q(1, 100), Q(1, 2)}

RSqrt(x) == CHOOSE r \in RSqrtGrid : RMul(r, r) = x

\* 1e-12 is below every positive source_std of the histories drawn
apply_moment_targeting(value, source_mean, source_std, target_mean, target_std) ==
    LET safe_target_std == RMax(target_std, Zero)
    IN  IF RLe(source_std, Zero) THEN target_mean
        ELSE RAdd(target_mean,
                  RMul(RDiv(RSub(value, source_mean), source_std), safe_target_std))

\* the series of build_bootstrap_history on the states the regime chain
\* went through and the scores draw_student_t delivered, one of each a year
\* (every sequence of states is an outcome of the chain, the stay
\* probabilities being clamped into [0.001, 0.999])
build_bootstrap_history(inp, states, scores) ==
    LET growth_std == RMax(inp.regime_model.growth_std, Q(1, 100))
        crisis_std == RMax(inp.regime_model.crisis_std, RAdd(growth_std, Q(1, 100)))
        skew_shift == RMul(clamp(inp.return_skewness, RInt(-2), RInt(2)), Q(12, 100))
    IN  Collect([year \in 1..Len(states) |->
            LET mean == IF states[year] = 0 THEN inp.regime_model.growth_mean
                        ELSE inp.regime_model.crisis_mean
                std == IF states[year] = 0 THEN growth_std ELSE crisis_std
            IN  clamp_annual_return(RAdd(mean, RMul(std, RAdd(scores[year], skew_shift))))])

\* Option<bool>.unwrap_or(false)
UnwrapOrFalse(option) == option # None /\ option[1]

\* history.map(|v| clamp(if moment_targeting { remapped v } else { v }))
Targeted(inp, history, target_mean, target_std, clamped(_)) ==
    IF UnwrapOrFalse(inp.historical_moment_targeting)
    THEN LET source_mean == Mean(history)
             source_std == RSqrt(Variance(history))
         IN  Collect([i \in 1..Len(history) |->
                         clamped(apply_moment_targeting(history[i], source_mean, source_std,
                                                        target_mean, target_std))])
    ELSE Collect([i \in 1..Len(history) |-> clamped(history[i])])

\* lines 135-178: synthesis is what build_bootstrap_history delivers when
\* it is called
EffectiveAnnualHistory(inp, synthesis) ==
    LET given == /\ UseHistoricalBootstrap(inp)
                 /\ inp.historical_annual_returns # None
                 /\ Len(inp.historical_annual_returns[1]) >= MinUserYears
        bootstrap_history == IF given THEN inp.historical_annual_returns[1] ELSE synthesis
    IN  [synthesized |-> ~given,
         history |->
            IF UseHistoricalBootstrap(inp)
            THEN Targeted(inp, bootstrap_history, inp.mean_return,
                          RMax(inp.return_variability, Zero), clamp_annual_return)
            ELSE bootstrap_history]

\* lines 180-220, for finite entries; target_monthly_std is
\* target_annual_std / sqrt(12)
EffectiveMonthlyHistory(inp) ==
    LET monthly_history ==
            IF UseHistoricalBootstrap(inp) /\ inp.historical_monthly_returns # None
            THEN LET given == inp.historical_monthly_returns[1]
                 IN  Collect([i \in 1..Len(given) |-> clamp_monthly_return(given[i])])
            ELSE <<>>
        target_annual_std == RMax(inp.return_variability, Zero)
    IN  IF UseHistoricalBootstrap(inp)
        THEN Targeted(inp, monthly_history, RDiv(inp.mean_return, RInt(12)),
                      RSqrt(RDiv(RMul(target_annual_std, target_annual_std), RInt(12))),
                      clamp_monthly_return)
        ELSE monthly_history

\* (sim_count / 10).max(1)
ProgressStep(sim_count) == Max(sim_count \div 10, 1)

\* lines 108-283: what the loops use of the setup
LoopSetup(c, synthesis) ==
    LET inp == c.input
        annual == EffectiveAnnualHistory(inp, synthesis)
        effective_monthly_history == EffectiveMonthlyHistory(inp)
        calibration ==
            MonthlyCalibration([effective_monthly_history |-> effective_monthly_history,
                                stay_growth |-> inp.regime_model.stay_growth,
                                stay_crisis |-> inp.regime_model.stay_crisis])
    IN  [use_historical_bootstrap |-> UseHistoricalBootstrap(inp),
         synthesized |-> annual.synthesized,
         annual_regime_bootstrap_pool |->
             bootstrap_pool_by_regime(annual.history, detect_regimes(annual.history)),
         effective_monthly_history |-> effective_monthly_history,
         use_monthly_calibration |-> calibration.use_monthly_calibration,
         monthly_regime_bootstrap_indices |-> calibration.monthly_regime_bootstrap_indices,
         monthly_markov |-> calibration.monthly_markov,
         sim_count |-> SimCount(inp),
         progress_step |-> ProgressStep(SimCount(inp)),
         block_length |-> IF inp.block_length = None THEN DefaultBlockLength
                          ELSE inp.block_length[1]]

\* values of random(), as the four bytes of the u32 drawn: 0, 1/2 and the
\* largest
LoopRandoms == {<<0, 0, 0, 0>>, <<0, 0, 0, 128>>, <<255, 255, 255, 255>>}

\* what subtracting 1 from the usize 0 can do: abort where overflow is
\* checked, wrap around where it is not
UnderflowOutcomes == {"panic", "wrap"}

\* active_monthly_asset_return: 0.0, annual_to_monthly_return of a pool
\* value, or an entry of the monthly history
NoReturn == [of |-> "none", value |-> Zero]

OfYear(value) == [of |-> "year", value |-> value]

OfMonth(value) == [of |-> "month", value |-> value]

\* the pool of the regime
PoolOf(pools, regime_state) == IF regime_state = 0 THEN pools.growth ELSE pools.crisis

\* pool[random_idx.min(pool.len().saturating_sub(1))]
Sampled(pool, value) == pool[PoolIndexOn(value, Len(pool)) + 1]

\* a fresh sample at the end of a block only
FreshSampleOnBlockEndOnly(block_remaining, regime_changed) == block_remaining = 0

\* block_remaining <= 0 || regime_changed, on a usize
FreshSample(block_remaining, regime_changed) == block_remaining = 0 \/ regime_changed

AppliesOverlayUnlessCalibrated(run) == ~run.use_monthly_calibration

\* the else branch of  if use_monthly_calibration || use_historical_bootstrap
AppliesOverlay(run) == ~(run.use_monthly_calibration \/ run.use_historical_bootstrap)

RecordsAnnualReturnAtYearEndOnly(month, months) == month % MonthsPerYear = 11

\* m % 12 == 11 || m == months as usize - 1
RecordsAnnualReturn(month, months) == month % MonthsPerYear = 11 \/ month = months - 1

ReportsProgressOnStepOnly(s, run) == s % run.progress_step = 0

\* sim % progress_step == 0 || sim == sim_count - 1
ReportsProgress(s, run) == s % run.progress_step = 0 \/ s = run.sim_count - 1

\* cb(value) when a sink was passed
Reported(l, value) == IF l.call.progress_callback THEN Append(l.progress, value) ELSE l.progress

\* a year starts in every month that is a multiple of 12, the first included
YearStartsAtZeroToo(run, month) == ~run.use_monthly_calibration /\ month % MonthsPerYear = 0

\* !use_monthly_calibration, and m > 0 && m % 12 == 0
YearStarts(run, month) ==
    ~run.use_monthly_calibration /\ month > 0 /\ month % MonthsPerYear = 0

\* effective_inflation_mean: which of the two means the month draws its
\* inflation around
NoMean == "none"

EffectiveInflationMean(regime_state) ==
    IF regime_state = 0 THEN "growth_inflation_mean" ELSE "crisis_inflation_mean"

\* lines 283-288, on the setup
LoopStart(c, run) ==
    [pc |-> "sim_start", call |-> c, run |-> run,
     progress |-> IF c.progress_callback THEN <<Zero>> ELSE <<>>,
     sim |-> 0, m |-> 0, regime_state |-> 0, regime_changed |-> FALSE, fresh |-> FALSE,
     block_remaining |-> 0, current_history_index |-> 0, active |-> NoReturn,
     effective_inflation_mean |-> NoMean,
     annual_months |-> <<>>, annual_real_returns |-> <<>>, year_returns |-> <<>>,
     overlays |-> 0, annual_real_returns_by_sim |-> <<>>, overlays_by_sim |-> <<>>]

\* lines 290-319: the head of a simulation, on the values drawn for the
\* initial regime and for the first pool draw
LoopSimStart(l, initial, first) ==
    LET regime_state ==
            InitialRegimeOn(initial, l.run.monthly_markov[1], l.run.monthly_markov[2])
        first_return ==
            Sampled(PoolOf(l.run.annual_regime_bootstrap_pool, regime_state), first)
    IN  [l EXCEPT !.pc = IF l.call.months > 0 THEN "month" ELSE "sim_end",
                  !.m = 0,
                  !.regime_state = regime_state,
                  !.regime_changed = FALSE,
                  !.fresh = FALSE,
                  !.block_remaining = 0,
                  !.current_history_index = 0,
                  !.active = IF l.run.use_monthly_calibration THEN NoReturn
                             ELSE OfYear(first_return),
                  !.effective_inflation_mean = NoMean,
                  !.year_returns = IF l.run.use_monthly_calibration THEN <<>>
                                   ELSE <<first_return>>,
                  !.annual_months = <<>>,
                  !.annual_real_returns = <<>>,
                  !.overlays = 0]

\* lines 321-440: month l.m of the simulation, on the values drawn for the
\* transition and for the pool, and on what the underflow of block_remaining
\* does if it happens
LoopMonth(l, transition, sample, underflow) ==
    LET run == l.run
        next_regime_state ==
            IF l.m > 0
            THEN TransitionOn(transition, l.regime_state,
                              run.monthly_markov[1], run.monthly_markov[2])
            ELSE l.regime_state
        regime_changed == l.m = 0 \/ next_regime_state # l.regime_state
        fresh == run.use_monthly_calibration /\ FreshSample(l.block_remaining, regime_changed)
        current_history_index ==
            IF ~run.use_monthly_calibration THEN l.current_history_index
            ELSE IF fresh
            THEN Sampled(PoolOf(run.monthly_regime_bootstrap_indices, next_regime_state),
                         sample)
            ELSE (l.current_history_index + 1) % Len(run.effective_monthly_history)
        block_before == IF fresh THEN run.block_length ELSE l.block_remaining
        underflows == run.use_monthly_calibration /\ block_before = 0
        year_starts == YearStarts(run, l.m)
        year_return ==
            Sampled(PoolOf(run.annual_regime_bootstrap_pool, next_regime_state), sample)
        annual_months == Append(IF year_starts THEN <<>> ELSE l.annual_months, l.m)
    IN  IF underflows /\ underflow = "panic"
        THEN [l EXCEPT !.pc = "panic"]
        ELSE [l EXCEPT
                !.pc = IF l.m + 1 < l.call.months THEN "month" ELSE "sim_end",
                !.m = l.m + 1,
                !.regime_state = next_regime_state,
                !.regime_changed = regime_changed,
                !.fresh = fresh,
                !.current_history_index = current_history_index,
                !.block_remaining = IF run.use_monthly_calibration THEN block_before - 1
                                    ELSE l.block_remaining,
                !.active = IF run.use_monthly_calibration
                           THEN OfMonth(run.effective_monthly_history[current_history_index + 1])
                           ELSE IF year_starts THEN OfYear(year_return)
                           ELSE l.active,
                !.effective_inflation_mean = EffectiveInflationMean(next_regime_state),
                !.year_returns = IF year_starts THEN Append(l.year_returns, year_return)
                                 ELSE l.year_returns,
                !.overlays = IF AppliesOverlay(run) THEN l.overlays + 1 ELSE l.overlays,
                !.annual_months = annual_months,
                !.annual_real_returns =
                    IF RecordsAnnualReturn(l.m, l.call.months)
                    THEN Append(l.annual_real_returns, annual_months)
                    ELSE l.annual_real_returns]

\* lines 442-465: the tail of a simulation; sim_balances has months entries,
\* and indexing it at retire_index aborts when it has none
LoopSimEnd(l) ==
    IF RetireIndex(l.call.retire_month, l.call.months) >= l.call.months
    THEN [l EXCEPT !.pc = "panic"]
    ELSE [l EXCEPT
            !.pc = IF l.sim + 1 < l.run.sim_count THEN "sim_start" ELSE "post",
            !.sim = l.sim + 1,
            !.annual_real_returns_by_sim =
                Append(l.annual_real_returns_by_sim, l.annual_real_returns),
            !.overlays_by_sim = Append(l.overlays_by_sim, l.overlays),
            !.progress =
                IF ReportsProgress(l.sim, l.run)
                THEN Reported(l, RMul(Q(l.sim + 1, l.run.sim_count), Q(9, 10)))
                ELSE l.progress]

\* the balance a simulation ends with when it ran whole years under annual
\* calibration without overlay, cashflows, fee, tax or inflation: the twelve
\* months of a year at annual_to_monthly_return(r) compound to 1 + r
RECURSIVE CompoundedYears(_, _)
CompoundedYears(bal, year_returns) ==
    IF year_returns = <<>> THEN bal
    ELSE CompoundedYears(RMul(bal, RAdd(One, Head(year_returns))), Tail(year_returns))

\* lines 467-470
LoopPost(l) == [l EXCEPT !.pc = "reduce", !.progress = Reported(l, Q(9, 10))]

\* lines 472-574: the reductions read what the simulations left
LoopReduce(l) == [l EXCEPT !.pc = "done"]

-----------------------------------------------------------------------------
(* SpecLoop: runs on drawn arguments, each followed from its setup through *)
(* every month of every simulation to the reductions.                      *)

\* the horizon of the drawn runs: a year and a partial one
MaxLoopMonths == 14

\* stands for the 600 months of the scenarios: two whole years
ScenarioMonths == 2 * MonthsPerYear

\* the regime model of the drawn runs: the monthly stays are 2/3 where the
\* history does not calibrate them
LoopRegimeModel ==
    [stay_growth |-> DefaultStay, stay_crisis |-> DefaultStay,
     growth_mean |-> Q(2, 25), growth_std |-> Zero,
     crisis_mean |-> Q(-1, 10), crisis_std |-> Zero]

\* what build_bootstrap_history can draw: growth throughout with scores
\* -1 and 1 in turn, crisis throughout with scores -1/2 and 1/2 in turn
SynthesisDraws ==
    { [states |-> [year \in 1..SynthesizedYears |-> 0],
       scores |-> [year \in 1..SynthesizedYears |-> IF year % 2 = 0 THEN One ELSE RInt(-1)]],
      [states |-> [year \in 1..SynthesizedYears |-> 1],
       scores |-> [year \in 1..SynthesizedYears |-> IF year % 2 = 0 THEN Half ELSE RNeg(Half)]] }

\* a user's annual history of the least length that is taken
GivenYears == [year \in 1..MinUserYears |-> IF year % 5 = 0 THEN Q(-1, 2) ELSE Q(1, 10)]

\* a user's annual history that is too short to be taken
FewYears == <<Q(1, 10), Q(-1, 2), Q(1, 10)>>

\* a user's monthly history of the least length that calibrates
GivenMonths == Cyclic(<<Q(1, 2), Zero, Q(-1, 2), Zero>>)

LoopInput(mode, annual, monthly, targeting, block_length, simulations) ==
    [simulation_mode |-> mode, historical_annual_returns |-> annual,
     historical_monthly_returns |-> monthly, historical_moment_targeting |-> targeting,
     block_length |-> block_length, simulations |-> simulations,
     regime_model |-> LoopRegimeModel, current_savings |-> RInt(100000),
     mean_return |-> Q(1, 20),
     return_variability |-> Zero, return_skewness |-> Zero]

LoopCall(inp, months, retire_month, progress_callback) ==
    [input |-> inp, months |-> months, retire_month |-> retire_month,
     progress_callback |-> progress_callback]

LoopCalls ==
    \* annual calibration on a synthesised history, in each mode
    { LoopCall(LoopInput(mode, annual, None, None, None, One), MaxLoopMonths, 7, TRUE) :
        mode \in {"None", "Some(historical)", "Some(parametric)"},
        annual \in {None, Some(FewYears)} }
    \cup
    \* annual calibration on the user's history
    { LoopCall(LoopInput(mode, Some(GivenYears), None, None, None, One),
               MaxLoopMonths - 1, 0, FALSE) :
        mode \in {"Some(historical)", "Some(parametric)"} }
    \cup
    \* monthly calibration, for each block length
    { LoopCall(LoopInput(mode, None, Some(monthly), None, block_length, One),
               MaxLoopMonths, MaxLoopMonths + 1, FALSE) :
        mode \in {"None", "Some(parametric)"},
        monthly \in {GivenMonths},
        block_length \in {None, Some(0), Some(1), Some(2)} }
    \cup
    \* monthly calibration on a history whose growth pool is empty
    { LoopCall(LoopInput("None", None, Some(ZeroMonths), None, None, One),
               MaxLoopMonths, 1, TRUE) }
    \cup
    \* the shortest horizons
    { LoopCall(LoopInput("None", None, None, None, None, One), months, retire_month, sink) :
        months \in {0, 1}, retire_month \in {0, 1, 2}, sink \in BOOLEAN }
    \cup
    \* many simulations of one month
    { LoopCall(LoopInput("Some(parametric)", None, None, None, None, RInt(simulations)),
               1, 1, sink) :
        simulations \in {10 * MinSimCount + 2, 10 * MinSimCount + 5}, sink \in BOOLEAN }
    \cup
    \* scenario 1, without and with moment targeting
    { LoopCall(LoopInput("None", None, None, targeting, None, One), ScenarioMonths, 12, FALSE) :
        targeting \in {None, Some(FALSE), Some(TRUE)} }

LpInit == \E c \in LoopCalls : lp = [pc |-> "setup", call |-> c]

\* lines 108-288: everything before the simulation loop
LpSetup ==
    /\ lp.pc = "setup"
    /\ \E draws \in SynthesisDraws :
         lp' = LoopStart(lp.call,
                   LoopSetup(lp.call,
                       build_bootstrap_history(lp.call.input, draws.states, draws.scores)))

\* lines 290-319
LpSimStart ==
    /\ lp.pc = "sim_start"
    /\ \E initial \in LoopRandoms, first \in LoopRandoms :
         lp' = LoopSimStart(lp, initial, first)

\* lines 321-440
LpMonth ==
    /\ lp.pc = "month"
    /\ \E transition \in LoopRandoms, sample \in LoopRandoms, underflow \in UnderflowOutcomes :
         lp' = LoopMonth(lp, transition, sample, underflow)

\* lines 442-465
LpSimEnd ==
    /\ lp.pc = "sim_end"
    /\ lp' = LoopSimEnd(lp)

\* lines 467-470
LpPost ==
    /\ lp.pc = "post"
    /\ lp' = LoopPost(lp)

\* lines 472-574
LpReduce ==
    /\ lp.pc = "reduce"
    /\ lp' = LoopReduce(lp)

LoopInit ==
    /\ DrvIdle
    /\ fi = FiIdle
    /\ cf = CfIdle
    /\ rg = RgIdle
    /\ rs = RsIdle
    /\ det = DetIdle
    /\ cal = CalIdle
    /\ LpInit
    /\ sq = SqIdle
    /\ rnd = RndIdle
    /\ gf = GfIdle
    /\ rp = RpIdle

LoopNext ==
    \/ LpSetup /\ UNCHANGED <<drv, fi, cf, rg, rs, det, cal, sq, rnd, gf, rp>>
    \/ LpSimStart /\ UNCHANGED <<drv, fi, cf, rg, rs, det, cal, sq, rnd, gf, rp>>
    \/ LpMonth /\ UNCHANGED <<drv, fi, cf, rg, rs, det, cal, sq, rnd, gf, rp>>
    \/ LpSimEnd /\ UNCHANGED <<drv, fi, cf, rg, rs, det, cal, sq, rnd, gf, rp>>
    \/ LpPost /\ UNCHANGED <<drv, fi, cf, rg, rs, det, cal, sq, rnd, gf, rp>>
    \/ LpReduce /\ UNCHANGED <<drv, fi, cf, rg, rs, det, cal, sq, rnd, gf, rp>>

SpecLoop == LoopInit /\ [][LoopNext]_vars

-----------------------------------------------------------------------------
(* Claims about the loops (SpecLoop).                                      *)

\* C12: the run is total: on every well-typed input, the boundary values
\* months = 0, months = 1, retireMonth = 0, retireMonth > months,
\* blockLength = 0 under monthly calibration and histories that leave a
\* pool empty included, it never aborts on an index out of range or on the
\* underflow of an unsigned integer.
C12_RunNeverAborts == lp.pc # "panic"

\* the indices of the simulations, among the first sims, whose end is
\* reported
ReportedSims(sims, sim_count) ==
    SelectSeq([i \in 1..sims |-> i - 1],
              LAMBDA s : s % Max(1, sim_count \div 10) = 0 \/ s = sim_count - 1)

\* what a sink has received once l is reached
ExpectedProgress(l) ==
    LET reported == ReportedSims(l.sim, l.run.sim_count)
    IN  <<Zero>>
        \o [i \in 1..Len(reported) |->
               RMul(Q(reported[i] + 1, l.run.sim_count), Q(9, 10))]
        \o (IF l.pc \in {"reduce", "done"} THEN <<Q(9, 10)>> ELSE <<>>)

\* the run without what concerns the sink
SinkFree(l) == [l EXCEPT !.call.progress_callback = FALSE, !.progress = <<>>]

\* the states the run can take next from l
LoopSteps(l) ==
    CASE l.pc = "sim_start" ->
            {LoopSimStart(l, initial, first) : initial \in LoopRandoms, first \in LoopRandoms}
      [] l.pc = "month" ->
            {LoopMonth(l, transition, sample, underflow) :
                transition \in LoopRandoms, sample \in LoopRandoms,
                underflow \in UnderflowOutcomes}
      [] l.pc = "sim_end" -> {LoopSimEnd(l)}
      [] l.pc = "post" -> {LoopPost(l)}
      [] l.pc = "reduce" -> {LoopReduce(l)}
      [] OTHER -> {}

\* C13: a sink receives 0 before the first simulation, then
\* (sim + 1) / simCount * 0.9 after each simulation whose index is a
\* multiple of max(1, floor(simCount / 10)) and after the last one, then 0.9
\* once more before the reductions and nothing after; the values never
\* decrease and never exceed 0.9; what the run does otherwise is the same
\* with and without a sink.
C13_ProgressReports ==
    lp.pc # "setup" =>
        /\ lp.call.progress_callback =>
              /\ lp.progress = ExpectedProgress(lp)
              /\ lp.progress[1] = Zero
              /\ NonDecreasing(lp.progress)
              /\ \A i \in DOMAIN lp.progress : RLe(lp.progress[i], Q(9, 10))
              /\ lp.pc \in {"reduce", "done"} =>
                    /\ lp.progress[Len(lp.progress)] = Q(9, 10)
                    /\ lp.progress[Len(lp.progress) - 1] = Q(9, 10)
        /\ ~lp.call.progress_callback => lp.progress = <<>>
        /\ {SinkFree(next) : next \in LoopSteps(lp)}
               = {SinkFree(next) :
                    next \in LoopSteps([lp EXCEPT !.call.progress_callback = ~@])}

\* a finished run of more than ten simulations whose last simulation is
\* reported for being the last
C13_Witness ==
    /\ lp.pc = "done"
    /\ lp.call.progress_callback
    /\ lp.run.progress_step > 1
    /\ (lp.run.sim_count - 1) % lp.run.progress_step # 0
    /\ Len(lp.progress) > 3

\* C14: scenario 1 (return variability 0, no inflation, cashflows, fee or
\* tax, annual mean return 5%, savings of 100000): every simulation ends
\* with the savings compounded at 5% over the years of the horizon.
C14_ScenarioOneCompoundsAtMean ==
    (lp.pc = "sim_end" /\ lp.call.months = ScenarioMonths) =>
        CompoundedYears(lp.call.input.current_savings, lp.year_returns)
            = RMul(lp.call.input.current_savings,
                   RPow(RAdd(One, lp.call.input.mean_return),
                        ScenarioMonths \div MonthsPerYear))

\* C15: under monthly calibration with blockLength >= 1 a month samples a
\* fresh history index from the pool of its regime iff it is month 0, or the
\* regime changed in it, or the block counter had reached 0; every other
\* month advances the index to (index + 1) mod len(history).  The index
\* stays below len(history), and a fresh sample is followed by at most
\* blockLength - 1 months that advance.
C15_BlockBootstrap ==
    [][ ( /\ lp.pc = "month"
          /\ lp.run.use_monthly_calibration
          /\ lp.run.block_length >= 1 )
        => LET len == Len(lp.run.effective_monthly_history)
               pools == lp.run.monthly_regime_bootstrap_indices
               pool == IF lp'.regime_state = 0 THEN pools.growth ELSE pools.crisis
               due == \/ lp.m = 0
                      \/ lp'.regime_state # lp.regime_state
                      \/ lp.block_remaining = 0
           IN  /\ lp'.pc # "panic"
               /\ lp'.fresh <=> due
               /\ due => /\ lp'.current_history_index \in Range(pool)
                         /\ lp'.block_remaining = lp.run.block_length - 1
               /\ ~due => /\ lp'.current_history_index
                                = (lp.current_history_index + 1) % len
                          /\ lp'.block_remaining = lp.block_remaining - 1
               /\ lp'.current_history_index \in 0..(len - 1)
               /\ lp'.block_remaining \in 0..(lp.run.block_length - 1) ]_vars

\* a month that advanced the index past the end of the history
C15_Witness ==
    /\ lp.pc \in {"month", "sim_end"}
    /\ lp.run.use_monthly_calibration
    /\ lp.run.block_length >= 2
    /\ lp.m >= 2
    /\ ~lp.fresh
    /\ lp.current_history_index = 0

\* C16: a month gets the stress overlay, and its draw is made, iff the run
\* uses neither monthly calibration nor the historical bootstrap: never in
\* the historical mode, a synthesised annual history included, and in every
\* month of every simulation in the parametric mode.
C16_OverlaySelective ==
    lp.pc # "setup" =>
        LET historical == lp.call.input.simulation_mode \in {"None", "Some(historical)"}
            plain == ~lp.run.use_monthly_calibration /\ ~lp.run.use_historical_bootstrap
        IN  /\ plain <=> ~historical
            /\ lp.pc \in {"month", "sim_end"} =>
                  lp.overlays = IF plain THEN lp.m ELSE 0
            /\ \A s \in DOMAIN lp.overlays_by_sim :
                  lp.overlays_by_sim[s] = IF plain THEN lp.call.months ELSE 0

\* a finished run in the historical mode on a synthesised history, the
\* user's being too short
C16_Witness ==
    /\ lp.pc = "done"
    /\ lp.call.input.simulation_mode = "Some(historical)"
    /\ lp.call.input.historical_annual_returns = Some(FewYears)
    /\ lp.run.synthesized
    /\ lp.call.months = MaxLoopMonths
    /\ \A s \in DOMAIN lp.overlays_by_sim : lp.overlays_by_sim[s] = 0

\* the months lo..hi
MonthsFrom(lo, hi) == [i \in 1..(hi - lo + 1) |-> lo + i - 1]

\* the months the k-th annual real return of a simulation compounds
MonthsOfRecord(k, months, calibrated) ==
    MonthsFrom(IF calibrated THEN 0 ELSE MonthsPerYear * (k - 1),
               Min(MonthsPerYear * k, months) - 1)

\* records is what a simulation has recorded when done of its months ran
RecordsAsExpected(records, done, months, calibrated) ==
    /\ Len(records) = IF done = months THEN (months + MonthsPerYear - 1) \div MonthsPerYear
                      ELSE done \div MonthsPerYear
    /\ \A k \in DOMAIN records : records[k] = MonthsOfRecord(k, months, calibrated)

\* C17: a simulation records ceil(months / 12) annual real returns, one at
\* every month m with m mod 12 = 11 and one at the last month of a partial
\* last year.  Under annual calibration the k-th compounds the months of
\* year k only, the accumulators being reset at every m > 0 with
\* m mod 12 = 0; under monthly calibration they are never reset and the k-th
\* compounds every month from 0 to the end of year k.
C17_AnnualRealReturns ==
    lp.pc # "setup" =>
        /\ lp.pc \in {"month", "sim_end"} =>
              RecordsAsExpected(lp.annual_real_returns, lp.m, lp.call.months,
                                lp.run.use_monthly_calibration)
        /\ \A s \in DOMAIN lp.annual_real_returns_by_sim :
              RecordsAsExpected(lp.annual_real_returns_by_sim[s], lp.call.months,
                                lp.call.months, lp.run.use_monthly_calibration)

\* a finished run over a year and a partial one, under monthly calibration
C17_Witness ==
    /\ lp.pc = "done"
    /\ lp.run.use_monthly_calibration
    /\ lp.call.months > MonthsPerYear
    /\ lp.call.months % MonthsPerYear # 0
    /\ Len(lp.annual_real_returns_by_sim[1]) = 2
    /\ Len(lp.annual_real_returns_by_sim[1][2]) = lp.call.months

-----------------------------------------------------------------------------
(* The sequence-risk summary (stats.rs 6-91).                              *)

\* let bucket_count = 5
BucketCount == 5

\* 1.max(10.min(min_length))
MaxEarlyYears == 10

\* series.len().max(1), the least over the simulations
MinLength(annual_real_returns_by_sim) ==
    LET lengths == {Max(Len(annual_real_returns_by_sim[i]), 1) :
                        i \in 1..Len(annual_real_returns_by_sim)}
    IN  CHOOSE least \in lengths : \A other \in lengths : least <= other

EarlyYears(annual_real_returns_by_sim) ==
    Max(1, Min(MaxEarlyYears, MinLength(annual_real_returns_by_sim)))

\* series.iter().take(early_years).sum::<f64>() / early_years as f64
EarlyMean(series, early_years) ==
    RDiv(RSum(Take(series, early_years)), RInt(early_years))

\* the simulations with their early mean, sorted by it (sort_by is stable);
\* index is 0-based
Enriched(annual_real_returns_by_sim) ==
    LET early_years == EarlyYears(annual_real_returns_by_sim)
    IN  Collect(SortStable(
            [i \in 1..Len(annual_real_returns_by_sim) |->
                [index |-> i - 1,
                 key |-> EarlyMean(annual_real_returns_by_sim[i], early_years)]]))

\* (bucket * sim_count) / bucket_count
BucketFrom(bucket, sim_count) == (bucket * sim_count) \div BucketCount

\* ((bucket + 1) * sim_count) / bucket_count
BucketTo(bucket, sim_count) == ((bucket + 1) * sim_count) \div BucketCount

BucketLabel(bucket) ==
    IF bucket = 0 THEN "Q1 (worst early sequence)"
    ELSE IF bucket = BucketCount - 1 THEN "Q5 (best early sequence)"
    ELSE CASE bucket = 1 -> "Q2" [] bucket = 2 -> "Q3" [] OTHER -> "Q4"

\* 0.1 as the f64 nearest to it
Tenth == Q(1, 10)

\* one unit in the last place of 0.1 (2^-56), stood for by an amount below
\* every difference between two of the drawn values
Ulp == Q(1, 1000)

\* the counts up to 5 at which the f64 sum of count copies of 0.1, added one
\* after the other, divided by count is not 0.1 but the next f64 above it:
\* 0.1 + 0.1 + 0.1 is 0.30000000000000004, and that over 3.0 is
\* 0.10000000000000002
TenthMeanRoundsAbove == {3}

\* members.iter().map(|m| m.early_mean).sum::<f64>() / members.len() as f64
\* the drawn values other than 0.1 are dyadic: their sums are exact in f64
MeanOfEarlyMeans(keys) ==
    LET exact == RDiv(RSum(keys), RInt(Len(keys)))
    IN  IF (\A k \in 1..Len(keys) : keys[k] = Tenth) /\ Len(keys) \in TenthMeanRoundsAbove
        THEN RAdd(exact, Ulp)
        ELSE exact

\* depleted_flags_of[item.index] || final_balances_of[item.index] <= 0.0
RuinedMember(dep, bal) == dep \/ RLe(bal, Zero)

\* one SequenceRiskBucket of a non-empty slice of the sorted simulations;
\* members is the local slice, kept beside the four fields
SequenceRiskBucket(bucket, members, final_balances_of, depleted_flags_of) ==
    LET size == Len(members)
        member_final_balances == [k \in 1..size |-> final_balances_of[members[k].index + 1]]
        ruin_count ==
            Cardinality({k \in 1..size :
                RuinedMember(depleted_flags_of[members[k].index + 1],
                             final_balances_of[members[k].index + 1])})
    IN  [bucket_label |-> BucketLabel(bucket),
         early_years_mean_return |->
            MeanOfEarlyMeans([k \in 1..size |-> members[k].key]),
         ruin_probability |-> RDiv(RInt(ruin_count), RInt(size)),
         ending_median |-> summarize(member_final_balances).p50,
         members |-> [k \in 1..size |-> members[k].index]]

\* build_sequence_risk_summary(annual_real_returns_by_sim, final_balances_of,
\* depleted_flags_of): the buckets whose slice is not empty, in bucket order
build_sequence_risk_summary(annual_real_returns_by_sim, final_balances_of, depleted_flags_of) ==
    LET sim_count == Len(annual_real_returns_by_sim)
        enriched == Enriched(annual_real_returns_by_sim)
        Members(bucket) ==
            SubSeq(enriched, BucketFrom(bucket, sim_count) + 1, BucketTo(bucket, sim_count))
        kept == SelectSeq([b \in 1..BucketCount |-> b - 1],
                          LAMBDA bucket : Members(bucket) # <<>>)
    IN  IF sim_count = 0 THEN <<>>
        ELSE [k \in 1..Len(kept) |->
                SequenceRiskBucket(kept[k], Members(kept[k]), final_balances_of, depleted_flags_of)]

\* success_count / sim_count, counted as the simulation loop counts it
SuccessProbability(final_balances_of, depleted_flags_of) ==
    RDiv(RInt(Cardinality({i \in 1..Len(final_balances_of) :
                              IsSuccess(depleted_flags_of[i], final_balances_of[i])})),
         RInt(Len(final_balances_of)))

\* the largest number of simulations drawn
MaxSeqSims == 6

\* what one simulation leaves: its annual real returns, its final balance
\* and its depleted flag
SimLeft(annual_real_returns, final_balance, is_depleted) ==
    [annual_real_returns |-> annual_real_returns, final_balance |-> final_balance,
     depleted |-> is_depleted]

SimsLeft ==
    { SimLeft(<<Q(-1, 8), Q(3, 8)>>, Zero, TRUE),
      SimLeft(<<Q(1, 8), Q(-3, 8)>>, RInt(100), FALSE),
      SimLeft(<<Zero, Q(1, 8)>>, RInt(50), TRUE),
      SimLeft(<<Q(1, 8)>>, RInt(200), FALSE) }

\* simulations that all earned 10% in their one year: buckets of 2 and of 3
TiedSims == [i \in 1..(2 * BucketCount + 3) |-> SimLeft(<<Tenth>>, RInt(100), FALSE)]

SeqCalls ==
    UNION {[1..sim_count -> SimsLeft] : sim_count \in 1..MaxSeqSims} \cup {TiedSims}

SqInit == sq \in {[pc |-> "left", sims |-> sims] : sims \in SeqCalls}

\* lines 529-533 and 549 of the run
SqSummarise ==
    /\ sq.pc = "left"
    /\ LET annual_real_returns_by_sim ==
               [i \in 1..Len(sq.sims) |-> sq.sims[i].annual_real_returns]
           final_balances_of == [i \in 1..Len(sq.sims) |-> sq.sims[i].final_balance]
           depleted_flags_of == [i \in 1..Len(sq.sims) |-> sq.sims[i].depleted]
       IN  sq' = [pc |-> "summarised", sims |-> sq.sims,
                  success_probability |-> SuccessProbability(final_balances_of, depleted_flags_of),
                  sequence_risk |->
                      build_sequence_risk_summary(annual_real_returns_by_sim,
                                                  final_balances_of, depleted_flags_of)]

SeqInit ==
    /\ DrvIdle
    /\ fi = FiIdle
    /\ cf = CfIdle
    /\ rg = RgIdle
    /\ rs = RsIdle
    /\ det = DetIdle
    /\ cal = CalIdle
    /\ lp = LpIdle
    /\ SqInit
    /\ rnd = RndIdle
    /\ gf = GfIdle
    /\ rp = RpIdle

SeqNext ==
    SqSummarise /\ UNCHANGED <<drv, fi, cf, rg, rs, det, cal, lp, rnd, gf, rp>>

SpecSeq == SeqInit /\ [][SeqNext]_vars

-----------------------------------------------------------------------------
(* Claims about the sequence-risk summary.                                 *)

\* the early mean of the simulation with the given 0-based index
EarlyMeanOfSim(index) ==
    EarlyMean(sq.sims[index + 1].annual_real_returns,
              EarlyYears([i \in 1..Len(sq.sims) |-> sq.sims[i].annual_real_returns]))

\* the members of the buckets, one after the other
RECURSIVE MembersUpTo(_, _)
MembersUpTo(buckets, k) ==
    IF k = 0 THEN <<>> ELSE MembersUpTo(buckets, k - 1) \o buckets[k].members

\* the bucket number b (0-based) a label stands for
BucketOfLabel(label) == CHOOSE b \in 0..(BucketCount - 1) : BucketLabel(b) = label

\* the members of a bucket that are ruined: depleted, or nothing left
RuinedIn(bucket) ==
    {j \in 1..Len(bucket.members) :
        \/ sq.sims[bucket.members[j] + 1].depleted
        \/ RLe(sq.sims[bucket.members[j] + 1].final_balance, Zero)}

\* what the summary is claimed to be, on the simulations it was built from
SequenceRiskAsClaimed ==
        LET n == Len(sq.sims)
            buckets == sq.sequence_risk
            all == MembersUpTo(buckets, Len(buckets))
            Size(k) == Len(buckets[k].members)
        IN  /\ Len(all) = n
            /\ \A index \in 0..(n - 1) : Cardinality({p \in 1..n : all[p] = index}) = 1
            /\ \A p \in 1..(n - 1) : RLe(EarlyMeanOfSim(all[p]), EarlyMeanOfSim(all[p + 1]))
            /\ \A k \in 1..Len(buckets) :
                LET b == BucketOfLabel(buckets[k].bucket_label)
                IN  /\ Len(MembersUpTo(buckets, k - 1)) = (b * n) \div BucketCount
                    /\ Len(MembersUpTo(buckets, k)) = ((b + 1) * n) \div BucketCount
                    /\ Size(k) > 0
            /\ \A k \in 1..Len(buckets) : \A other \in 1..Len(buckets) :
                Size(k) - Size(other) <= 1
            /\ Len(buckets) < BucketCount => \A k \in 1..Len(buckets) : Size(k) = 1
            /\ \A k \in 1..Len(buckets) :
                /\ buckets[k].early_years_mean_return =
                       RDiv(RSum([j \in 1..Size(k) |-> EarlyMeanOfSim(buckets[k].members[j])]),
                            RInt(Size(k)))
                /\ buckets[k].ruin_probability =
                       RDiv(RInt(Cardinality(RuinedIn(buckets[k]))), RInt(Size(k)))
            /\ \A k \in 1..(Len(buckets) - 1) :
                RLe(buckets[k].early_years_mean_return, buckets[k + 1].early_years_mean_return)
            /\ RDiv(RSum([k \in 1..Len(buckets) |->
                            RMul(RInt(Size(k)), buckets[k].ruin_probability)]), RInt(n))
                   = RSub(One, sq.success_probability)

\* C20: build_sequence_risk_summary sorts the simulations by their early-years
\* mean ascending and cuts them at floor(b*n/5), b = 0..5: every simulation is
\* in exactly one bucket, the bucket sizes differ by at most one, the bucket
\* means of the early returns do not decrease from Q1 to Q5, each bucket's
\* ruin probability is the fraction of its members that are depleted or end
\* at a balance <= 0, and the size-weighted average of the ruin probabilities
\* is 1 - successProbability of the run.
C20_SequenceRiskBuckets == sq.pc = "summarised" => SequenceRiskAsClaimed

\* the same where the sums of the early means are exact in f64
C20_BucketsOfExactSums ==
    sq.pc = "summarised" /\ sq.sims # TiedSims => SequenceRiskAsClaimed

\* what is left of the claim on tied simulations: the cuts and the ruin
\* probabilities are as claimed, and a later bucket's mean is below an
\* earlier one's by no more than the rounding of the earlier sum
C20_TiedBucketsWithinRounding ==
    sq.pc = "summarised" /\ sq.sims = TiedSims =>
        /\ Len(sq.sequence_risk) = BucketCount
        /\ \A k \in 1..BucketCount :
            /\ Len(sq.sequence_risk[k].members) \in {2, 3}
            /\ sq.sequence_risk[k].ruin_probability = Zero
            /\ RLe(Tenth, sq.sequence_risk[k].early_years_mean_return)
            /\ RLe(sq.sequence_risk[k].early_years_mean_return, RAdd(Tenth, Ulp))

\* more simulations than buckets, buckets of two sizes, a bucket in which
\* some members are ruined and some are not, and bucket means that differ
C20_Witness ==
    /\ sq.pc = "summarised"
    /\ Len(sq.sims) > BucketCount
    /\ Len(sq.sequence_risk) = BucketCount
    /\ \E k \in 1..BucketCount : \E other \in 1..BucketCount :
        Len(sq.sequence_risk[k].members) < Len(sq.sequence_risk[other].members)
    /\ \E k \in 1..BucketCount :
        /\ RLt(Zero, sq.sequence_risk[k].ruin_probability)
        /\ RLt(sq.sequence_risk[k].ruin_probability, One)
    /\ RLt(sq.sequence_risk[1].early_years_mean_return,
           sq.sequence_risk[BucketCount].early_years_mean_return)
    /\ RLt(Zero, sq.success_probability)
    /\ RLt(sq.success_probability, One)

\* fewer simulations than buckets: the empty buckets are left out
C20_WitnessFew ==
    /\ sq.pc = "summarised"
    /\ Len(sq.sims) = 3
    /\ Len(sq.sequence_risk) = 3
    /\ sq.sequence_risk[1].bucket_label = "Q2"
    /\ sq.sequence_risk[3].bucket_label = "Q5 (best early sequence)"

-----------------------------------------------------------------------------
(* Claims about the grid of the ruin surface.                              *)

\* an integer n lies in [current_age + 1, simulate_until_age - 1]
InAgeWindow(inp, n) ==
    /\ RLe(RAdd(inp.current_age, One), RInt(n))
    /\ RLe(RInt(n), RSub(inp.simulate_until_age, One))

\* what the surface is claimed to be, on the call it was built from
RuinSurfaceAsClaimed ==
    LET ages == rs.surface.retirement_ages
        rows == rs.surface.ruin_probabilities
    IN  /\ Len(ages) \in 1..5
        /\ \A j \in 1..(Len(ages) - 1) : ages[j] < ages[j + 1]
        /\ \A j \in 1..Len(ages) : ages[j] \in Int /\ InAgeWindow(rs.call.input, ages[j])
        /\ rs.surface.spending_multipliers = <<Q(4, 5), Q(9, 10), One, Q(11, 10), Q(6, 5)>>
        /\ Len(rows) = 5
        /\ \A a \in 1..Len(rows) :
            /\ Len(rows[a]) = Len(ages)
            /\ \A j \in 1..Len(ages) :
                /\ rows[a][j] = RuinCell(rs.call, rs.surface.spending_multipliers[a], ages[j])
                /\ RLe(Zero, rows[a][j])
                /\ RLe(rows[a][j], One)

\* C21: the surface's retirementAges has 1 to 5 entries, is strictly
\* increasing, and every entry is an integer year in [currentAge + 1,
\* simulateUntilAge - 1], for fractional as well as integer input ages;
\* ruinProbabilities has 5 rows in the order of the multipliers 0.8, 0.9, 1.0,
\* 1.1, 1.2, each row has one entry per retirement age in the same order, and
\* every entry is in [0, 1].
C21_RuinSurfaceGrid == rs.pc = "done" => RuinSurfaceAsClaimed

\* whole ages with a horizon of at least two years
WholeAges(inp) ==
    /\ inp.current_age[2] = 1
    /\ inp.retirement_age[2] = 1
    /\ inp.simulate_until_age[2] = 1
    /\ RLe(RAdd(inp.current_age, One), RSub(inp.simulate_until_age, One))

\* the same at whole ages: there the rounding leaves the clamped age alone
C21_GridAtWholeAges == rs.pc = "done" /\ WholeAges(rs.call.input) => RuinSurfaceAsClaimed

\* at any ages, everything but the window holds, and an entry is off the
\* window by less than a year
C21_GridWithinRounding ==
    rs.pc = "done" =>
        LET ages == rs.surface.retirement_ages
            rows == rs.surface.ruin_probabilities
            inp == rs.call.input
        IN  /\ Len(ages) \in 1..5
            /\ \A j \in 1..(Len(ages) - 1) : ages[j] < ages[j + 1]
            /\ Len(rows) = 5
            /\ \A a \in 1..Len(rows) :
                /\ Len(rows[a]) = Len(ages)
                /\ \A j \in 1..Len(ages) : RLe(Zero, rows[a][j]) /\ RLe(rows[a][j], One)
            /\ RLe(RAdd(inp.current_age, One), RSub(inp.simulate_until_age, One)) =>
                \A j \in 1..Len(ages) :
                    /\ RLt(RSub(RAdd(inp.current_age, One), One), RInt(ages[j]))
                    /\ RLt(RInt(ages[j]), RAdd(RSub(inp.simulate_until_age, One), One))

-----------------------------------------------------------------------------
(* One RandomSource, constructed and then called (calculations.rs 18-53).  *)

\* the number of calls of random() followed
MaxRandomCalls == 12

\* value * 2^exponent as a seed
ScaledSeed(value, exponent) ==
    Some([finite |-> TRUE, value |-> RInt(value), exponent |-> exponent])

RndSeeds ==
    { FiniteSeed(q) : q \in {Zero, RInt(42), RInt(-1), Q(3, 2), Q(5, 2), Q(-3, 2),
                              RInt(1000000000), RInt(-1000000000)} }
    \cup { ScaledSeed(value, exponent) : value \in {1, -1, 3}, exponent \in {40, 62, 63, 64} }
    \cup { None, NonFiniteSeed }

RndInit == \E seed \in RndSeeds : rnd = [pc |-> "seed", seed |-> seed]

\* RandomSource::new(seed)
RndNew ==
    /\ rnd.pc = "seed"
    /\ rnd' = [pc |-> "source", seed |-> rnd.seed, rng |-> new(rnd.seed),
               calls |-> 0, value |-> None]

\* one call of random()
RndRandom ==
    /\ rnd.pc = "source"
    /\ rnd.calls < MaxRandomCalls
    /\ \E o \in random(rnd.rng) :
        rnd' = [rnd EXCEPT !.rng = o.rng, !.calls = @ + 1, !.value = Some(o.value)]

RandomInit ==
    /\ DrvIdle
    /\ fi = FiIdle
    /\ cf = CfIdle
    /\ rg = RgIdle
    /\ rs = RsIdle
    /\ det = DetIdle
    /\ cal = CalIdle
    /\ lp = LpIdle
    /\ sq = SqIdle
    /\ RndInit
    /\ gf = GfIdle
    /\ rp = RpIdle

RandomNext ==
    \/ RndNew /\ UNCHANGED <<drv, fi, cf, rg, rs, det, cal, lp, sq, gf, rp>>
    \/ RndRandom /\ UNCHANGED <<drv, fi, cf, rg, rs, det, cal, lp, sq, gf, rp>>

SpecRandom == RandomInit /\ [][RandomNext]_vars

\* round(seed) mod 2^32, as the four bytes of the word
ClaimedSeedWord(seed) ==
    IF "exponent" \in DOMAIN seed THEN U32(0) ELSE U32(RRound(seed.value))

\* a + a + ... (k times) mod 2^32
RECURSIVE TimesMod(_, _)
TimesMod(a, k) == IF k = 0 THEN U32(0) ELSE wrapping_add(TimesMod(a, k - 1), a)

\* the word of the Mulberry32 step on the state s
ClaimedWord(s) ==
    LET t1 == wrapping_mul(BitXor(s, ShiftRight(s, 15)), BitOr(s, U32(1)))
        t2 == BitXor(t1, wrapping_add(t1, wrapping_mul(BitXor(t1, ShiftRight(t1, 7)),
                                                       BitOr(t1, U32(61)))))
    IN  BitXor(t2, ShiftRight(t2, 14))

\* what a seeded source is claimed to hold and to have returned after its
\* calls
SeededSourceAsClaimed ==
    LET state == wrapping_add(ClaimedSeedWord(rnd.seed[1]),
                              TimesMod(Mulberry32Increment, rnd.calls))
    IN  /\ rnd.rng.state = Some(state)
        /\ rnd.calls > 0 =>
            /\ rnd.value = Some(ClaimedWord(state))
            /\ \A i \in 1..4 : rnd.value[1][i] \in 0..255

\* a seed of 2^63 or more
AboveI64(seed) ==
    /\ "exponent" \in DOMAIN seed
    /\ seed.value[1] > 0
    /\ seed.exponent >= I64Bits \/ seed.value[1] >= 2 ^ (I64Bits - seed.exponent)

\* C22: for a seeded random source the state after k calls of random() is
\* (seed32 + k * 0x6D2B79F5) mod 2^32 with seed32 = round(seed) mod 2^32, and
\* each call returns w / 2^32 for the word w of the Mulberry32 step on the new
\* state, all products and sums wrapping modulo 2^32: every output is in
\* [0, 1).
C22_Mulberry32Stream ==
    rnd.pc = "source" /\ rnd.rng.state # None => SeededSourceAsClaimed

\* the same for the seeds that an i64 holds
C22_StreamOfSeedsInRange ==
    rnd.pc = "source" /\ rnd.rng.state # None /\ ~AboveI64(rnd.seed[1]) => SeededSourceAsClaimed

\* a seed from 2^63 on is taken for 2^63 - 1: the stream is that of 0xFFFFFFFF
C22_StreamOfSeedsAboveRange ==
    rnd.pc = "source" /\ rnd.rng.state # None /\ AboveI64(rnd.seed[1]) =>
        LET state == wrapping_add(AllOnes, TimesMod(Mulberry32Increment, rnd.calls))
        IN  /\ rnd.rng.state = Some(state)
            /\ rnd.calls > 0 => rnd.value = Some(ClaimedWord(state))

-----------------------------------------------------------------------------
(* The gap-fill pass on drawn labels (engine2.rs 60-66 and 108-114).       *)

\* the longest label vector drawn
MaxGapLabels == 7

GapLabels == UNION {[1..len -> {0, 1}] : len \in 0..MaxGapLabels}

GfInit == \E labels \in GapLabels : gf = [pc |-> "raw", raw |-> labels, labels |-> labels]

\* the pass of the detector on its raw labels
GfPass ==
    /\ gf.pc = "raw"
    /\ gf' = [gf EXCEPT !.pc = "filled", !.labels = GapFill(gf.labels)]

\* the same pass once more, on what the first left
GfSecondPass ==
    /\ gf.pc = "filled"
    /\ gf' = [gf EXCEPT !.pc = "again", !.labels = GapFill(gf.labels)]

GapInit ==
    /\ DrvIdle
    /\ fi = FiIdle
    /\ cf = CfIdle
    /\ rg = RgIdle
    /\ rs = RsIdle
    /\ det = DetIdle
    /\ cal = CalIdle
    /\ lp = LpIdle
    /\ sq = SqIdle
    /\ rnd = RndIdle
    /\ GfInit
    /\ rp = RpIdle

GapNext ==
    \/ GfPass /\ UNCHANGED <<drv, fi, cf, rg, rs, det, cal, lp, sq, rnd, rp>>
    \/ GfSecondPass /\ UNCHANGED <<drv, fi, cf, rg, rs, det, cal, lp, sq, rnd, rp>>

SpecGap == GapInit /\ [][GapNext]_vars

\* an interior index whose label is 0 between two labels 1
IsGap(labels, index) ==
    /\ index \in 2..(Len(labels) - 1)
    /\ labels[index] = 0
    /\ labels[index - 1] = 1
    /\ labels[index + 1] = 1

\* the rule applied to every index of the same labels at once
FilledAtOnce(labels) ==
    [index \in 1..Len(labels) |-> IF IsGap(labels, index) THEN 1 ELSE labels[index]]

\* C23: the single in-place left-to-right gap-fill pass gives the labels that
\* the rule gives when applied to all indices of the raw labels at once, and
\* what it leaves is a fixed point: no interior index has label 0 between two
\* labels 1, so a second pass changes nothing; the pass turns 0 into 1 only,
\* never 1 into 0, and leaves the first and the last label alone.
C23_GapFillOnePassFixedPoint ==
    /\ gf.pc \in {"filled", "again"} =>
        /\ gf.labels = FilledAtOnce(gf.raw)
        /\ \A index \in 1..Len(gf.labels) : ~IsGap(gf.labels, index)
        /\ Len(gf.labels) = Len(gf.raw)
        /\ \A index \in 1..Len(gf.raw) : gf.raw[index] = 1 => gf.labels[index] = 1
        /\ Len(gf.raw) >= 1 =>
            /\ gf.labels[1] = gf.raw[1]
            /\ gf.labels[Len(gf.raw)] = gf.raw[Len(gf.raw)]
    /\ gf.pc = "again" => gf.labels = GapFill(gf.raw)

\* two gaps next to one another were filled, and the pass ran twice
C23_Witness ==
    /\ gf.pc = "again"
    /\ gf.raw = <<1, 0, 1, 0, 1, 0, 0>>
    /\ gf.labels = <<1, 1, 1, 1, 1, 0, 0>>

-----------------------------------------------------------------------------
(* Claims about the depletion of one simulation.                           *)

\* the running simulation ended every month so far above 0
AllMonthsPositive == \A k \in 1..m : RLt(Zero, sim_balances[k])

\* C24: within one simulation the depleted flag is absorbing, and at the end
\* of every month depleted is true iff depletedMonths >= 1, a cumulative
\* shortfall > 0 implies depleted, and depletedMonths is at most the months
\* elapsed; so a simulation is counted a success iff its end-of-month balance
\* was > 0 in every month: one whose balance was exactly 0 in some month is
\* never a success, even with a positive final balance.
C24_DepletionAbsorbing ==
    /\ [](pc \in {"month", "sim_end"} =>
            /\ depleted <=> depleted_months >= 1
            /\ RLt(Zero, cumulative_shortfall) => depleted
            /\ depleted_months <= m
            /\ depleted <=> ~AllMonthsPositive)
    /\ [][/\ pc = "month" /\ depleted => depleted'
          /\ pc = "sim_end" =>
                (success_count' = success_count + 1 <=> AllMonthsPositive)
                /\ (success_count' = success_count <=> ~AllMonthsPositive)]_vars

\* a simulation that ended a month at exactly 0 and its last month above 0
C24_Witness ==
    /\ pc = "sim_end"
    /\ m = call.months
    /\ m >= 2
    /\ sim_balances[1] = Zero
    /\ RLt(Zero, balance)
    /\ depleted
    /\ depleted_months < m

-----------------------------------------------------------------------------
(* Claims about what a cell of the ruin surface takes from its age.        *)

HasDefaultSource(income_sources) ==
    \E i \in 1..Len(income_sources) : income_sources[i].id = "is-default"

\* the sources with the default ones ending at the given age, one by one
SourcesEndingAt(income_sources, age) ==
    [i \in 1..Len(income_sources) |->
        [id |-> income_sources[i].id, from_age |-> income_sources[i].from_age,
         to_age |-> IF income_sources[i].id = "is-default" THEN RInt(age)
                    ELSE income_sources[i].to_age,
         yearly_amount |-> income_sources[i].yearly_amount,
         inflation_adjusted |-> income_sources[i].inflation_adjusted]]

\* the arrays of the caller's own input (its retirement age included), with
\* the given spending and sources
ArraysOfCaller(c, spending_periods, income_sources) ==
    build_cashflow_arrays(c.input, spending_periods, income_sources,
                          c.lump_sum_events, c.months)

CellTakesOnlyDefaultToAge(c, surface) ==
    \A a \in 1..Len(surface.spending_multipliers) :
        \A j \in 1..Len(surface.retirement_ages) :
            LET cell == CellArrays(c, surface.spending_multipliers[a],
                                   surface.retirement_ages[j])
                scaled == ScaledSpending(c.spending_periods,
                                         surface.spending_multipliers[a])
            IN  /\ cell = ArraysOfCaller(c, scaled,
                              SourcesEndingAt(c.income_sources, surface.retirement_ages[j]))
                /\ cell.lump_sum_by_month =
                       ArraysOfCaller(c, c.spending_periods, c.income_sources).lump_sum_by_month
                /\ \A i \in 1..Len(scaled) :
                       /\ scaled[i].from_age = c.spending_periods[i].from_age
                       /\ scaled[i].to_age = c.spending_periods[i].to_age
                /\ ~HasDefaultSource(c.income_sources) =>
                       /\ cell = ArraysOfCaller(c, scaled, c.income_sources)
                       /\ surface.ruin_probabilities[a][j] = surface.ruin_probabilities[a][1]

\* C26: a cell's retirement age reaches its cashflows only as the to_age of
\* the sources with id "is-default": the arrays are those of the caller's own
\* input with the scaled (never shifted) spending and those sources ended at
\* the cell's age, the lump sums are the caller's; without such a source all
\* columns of a row hold the same probability; and building the surface
\* leaves the caller's arguments as they were.
C26_CellAgeOnlyThroughDefaultSource ==
    /\ [](rs.pc = "done" => CellTakesOnlyDefaultToAge(rs.call, rs.surface))
    /\ [][rs.pc = "call" => rs'.call = rs.call]_vars

\* a surface of several columns built from a source that is not the default
\* one, some of whose cells are ruined and some are not
C26_Witness ==
    /\ rs.pc = "done"
    /\ rs.call.income_sources = <<Rent>>
    /\ Len(rs.surface.retirement_ages) >= 2
    /\ \E a, b \in 1..Len(rs.surface.spending_multipliers) :
           rs.surface.ruin_probabilities[a][1] # rs.surface.ruin_probabilities[b][1]

\* with the default source the columns of a row differ
C26_WitnessDefault ==
    /\ rs.pc = "done"
    /\ HasDefaultSource(rs.call.income_sources)
    /\ \E a \in 1..Len(rs.surface.spending_multipliers) :
           \E j \in 1..Len(rs.surface.retirement_ages) :
               rs.surface.ruin_probabilities[a][j] # rs.surface.ruin_probabilities[a][1]

-----------------------------------------------------------------------------
(* Claims about the return of a year under annual calibration.             *)

\* a value of the pool of the regime, as the return of a year
FromPoolOf(l, regime_state, active) ==
    /\ active.of = "year"
    /\ \E i \in 1..Len(PoolOf(l.run.annual_regime_bootstrap_pool, regime_state)) :
           active.value = PoolOf(l.run.annual_regime_bootstrap_pool, regime_state)[i]

AnnualStep(before, after) ==
    /\ before.pc \in {"sim_start", "month"}
    /\ after.pc # "panic"
    /\ ~before.run.use_monthly_calibration

ActiveReturnByYear(before, after) ==
    IF before.pc = "sim_start"
    THEN FromPoolOf(after, after.regime_state, after.active)
    ELSE /\ IF before.m > 0 /\ before.m % MonthsPerYear = 0
            THEN FromPoolOf(after, after.regime_state, after.active)
            ELSE after.active = before.active
         /\ after.effective_inflation_mean =
                IF after.regime_state = 0 THEN "growth_inflation_mean"
                ELSE "crisis_inflation_mean"

\* C27: under annual calibration the return selected for a simulation is
\* drawn before month 0 from the pool of the initial regime, is drawn again
\* only in a month m > 0 with m mod 12 = 0, from the pool of the regime that
\* month is in, and is the same in every other month, also when the regime
\* changes; the inflation mean of every month is the one of its regime.
C27_AnnualReturnHeldThroughYear ==
    [][AnnualStep(lp, lp') => ActiveReturnByYear(lp, lp')]_vars

\* a month inside a year in which the regime changed: the month drew its
\* inflation around the mean of the new regime, and its return is still the
\* one of the year, which the pool of the new regime does not hold
C27_Witness ==
    /\ lp.pc \in {"month", "sim_end"}
    /\ ~lp.run.use_monthly_calibration
    /\ lp.m >= 2
    /\ (lp.m - 1) % MonthsPerYear # 0
    /\ lp.regime_changed
    /\ lp.effective_inflation_mean = EffectiveInflationMean(lp.regime_state)
    /\ ~FromPoolOf(lp, lp.regime_state, lp.active)

\* the month that starts the second year: its return is of the pool of the
\* regime of that month, which does not hold the return of the first year
C27_WitnessYearStart ==
    /\ lp.pc \in {"month", "sim_end"}
    /\ ~lp.run.use_monthly_calibration
    /\ lp.m = MonthsPerYear + 1
    /\ Len(lp.year_returns) = 2
    /\ FromPoolOf(lp, lp.regime_state, lp.active)
    /\ ~FromPoolOf(lp, lp.regime_state, OfYear(lp.year_returns[1]))

-----------------------------------------------------------------------------
(* One simulation and its replay in binary floating point                  *)
(* (simulation.rs 420-429, stats.rs 93-122).                               *)
(*                                                                         *)
(* An f64 keeps 53 significant bits and every operation on f64 rounds its *)
(* exact result to the nearest value that has them, ties to the even one.  *)
(* Here a value keeps MantissaBits significant bits and is rounded the     *)
(* same way; the exponent is not bounded.                                  *)

\* stands for the 53 significant bits of an f64
MantissaBits == 5

\* 2^k as a fraction, for k of either sign
PowerOfTwo(k) == IF k >= 0 THEN Q(2 ^ k, 1) ELSE Q(1, 2 ^ (-k))

\* the exponent e at which x / 2^e, for x > 0, has MantissaBits bits before
\* the point: 2^(MantissaBits - 1) <= x / 2^e < 2^MantissaBits
RECURSIVE ExponentFrom(_, _)
ExponentFrom(x, e) ==
    IF RLe(PowerOfTwo(e + MantissaBits), x) THEN ExponentFrom(x, e + 1)
    ELSE IF RLt(x, PowerOfTwo(e + MantissaBits - 1)) THEN ExponentFrom(x, e - 1)
    ELSE e

\* a fraction >= 0 to the nearest integer, ties to the even one
NearestEven(x) ==
    LET below == RFloor(x)
        rest == RSub(x, RInt(below))
    IN  IF RLt(rest, Q(1, 2)) THEN below
        ELSE IF RLt(Q(1, 2), rest) THEN below + 1
        ELSE IF below % 2 = 0 THEN below ELSE below + 1

\* a positive x rounded to MantissaBits significant bits
RoundedPositive(x) ==
    LET e == ExponentFrom(x, 0)
    IN  RMul(RInt(NearestEven(RDiv(x, PowerOfTwo(e)))), PowerOfTwo(e))

\* the exact result of an operation as the operation delivers it
Rounded(x) ==
    IF x = Zero THEN Zero
    ELSE IF RLt(Zero, x) THEN RoundedPositive(x)
    ELSE RNeg(RoundedPositive(RNeg(x)))

FAdd(a, b) == Rounded(RAdd(a, b))

FMul(a, b) == Rounded(RMul(a, b))

FDiv(a, b) == Rounded(RDiv(a, b))

\* balance += flow + lump; balance *= growth_factor; balance /= 1.0 + inflation
FloatGrownBalance(bal, flow, lump, growth_factor, monthly_inflation) ==
    FDiv(FMul(FAdd(bal, FAdd(flow, lump)), growth_factor), FAdd(One, monthly_inflation))

\* sim_growth[m] = monthly_portfolio_growth_factor / (1.0 + monthly_inflation)
FloatSimGrowth(growth_factor, monthly_inflation) ==
    FDiv(growth_factor, FAdd(One, monthly_inflation))

\* balance += monthly_net_flow[month] + lump_sum_by_month[month];
\* balance *= growth_factors[sim][month]
FloatReplayedBalance(bal, flow, lump, factor) == FMul(FAdd(bal, FAdd(flow, lump)), factor)

\* the months of the drawn simulations
ReplayMonths == 2

\* the values of MantissaBits bits among the drawn savings
ReplaySavings == {RInt(k) : k \in 1..(2 ^ MantissaBits - 1)}

\* the drawn monthly inflations: 1 + inflation is 1, 5/4, 3/2, 2 or 3
ReplayInflations == {Zero, Q(1, 4), Q(1, 2), One, RInt(2)}

\* those for which 1 + inflation is a power of two
PowerOfTwoInflations == {Zero, One}

\* a call: the savings, the inflation of every month, the growth factor of
\* every month (no return, no fee, no tax: 1), no net flow, and a lump sum in
\* the last month
ReplayCall(current_savings, monthly_inflation, lump) ==
    [current_savings |-> current_savings, monthly_inflation |-> monthly_inflation,
     growth_factor |-> One,
     monthly_net_flow |-> [k \in 1..ReplayMonths |-> Zero],
     lump_sum_by_month |-> [k \in 1..ReplayMonths |-> IF k = ReplayMonths THEN lump ELSE Zero],
     months |-> ReplayMonths]

\* what a run without flows holds at the end of month n
RECURSIVE HeldAfter(_, _, _)
HeldAfter(current_savings, monthly_inflation, n) ==
    IF n = 0 THEN current_savings
    ELSE FloatGrownBalance(HeldAfter(current_savings, monthly_inflation, n - 1),
                           Zero, Zero, One, monthly_inflation)

\* the lump sums drawn for given savings and inflation: none, a withdrawal
\* of 1, and the withdrawal of what the run holds before its last month
ReplayLumps(current_savings, monthly_inflation) ==
    { Zero, RInt(-1),
      RNeg(HeldAfter(current_savings, monthly_inflation, ReplayMonths - 1)) }

ReplayCalls ==
    UNION { { ReplayCall(current_savings, monthly_inflation, lump) :
                lump \in ReplayLumps(current_savings, monthly_inflation) } :
            current_savings \in ReplaySavings, monthly_inflation \in ReplayInflations }

RpInit ==
    \E c \in ReplayCalls :
        rp = [pc |-> "month", call |-> c, m |-> 0, balance |-> c.current_savings,
              depleted |-> FALSE, sim_balances |-> <<>>, sim_growth |-> <<>>,
              success |-> FALSE, replayed |-> <<>>, ruined |-> FALSE,
              ruin_probability |-> Zero]

\* lines 420-429 and 439 of the run: one month of the simulation
RpMonth ==
    /\ rp.pc = "month"
    /\ LET grown == FloatGrownBalance(rp.balance, rp.call.monthly_net_flow[rp.m + 1],
                                      rp.call.lump_sum_by_month[rp.m + 1],
                                      rp.call.growth_factor, rp.call.monthly_inflation)
           after == ClampBalance(grown, Zero, rp.depleted)
       IN  rp' = [rp EXCEPT
                    !.m = @ + 1,
                    !.balance = after.balance,
                    !.depleted = after.depleted,
                    !.sim_balances = Append(@, after.balance),
                    !.sim_growth = Append(@, FloatSimGrowth(rp.call.growth_factor,
                                                            rp.call.monthly_inflation)),
                    !.pc = IF rp.m + 1 < rp.call.months THEN "month" ELSE "sim_end"]

\* lines 446-456 of the run: the simulation is a success or not
RpSimEnd ==
    /\ rp.pc = "sim_end"
    /\ rp' = [rp EXCEPT !.pc = "replay", !.m = 0, !.balance = rp.call.current_savings,
                        !.success = IsSuccess(rp.depleted, rp.balance)]

\* stats.rs 107-114: one month of the replay
RpReplayMonth ==
    /\ rp.pc = "replay"
    /\ rp.m < rp.call.months
    /\ LET grown == FloatReplayedBalance(rp.balance, rp.call.monthly_net_flow[rp.m + 1],
                                         rp.call.lump_sum_by_month[rp.m + 1],
                                         rp.sim_growth[rp.m + 1])
           ruined_now == RLe(grown, Zero)
       IN  rp' = [rp EXCEPT
                    !.m = @ + 1,
                    !.balance = IF ruined_now THEN Zero ELSE grown,
                    !.ruined = @ \/ ruined_now,
                    !.replayed = Append(@, IF ruined_now THEN Zero ELSE grown)]

\* stats.rs 116-121: the simulation counts as ruined or not; every simulation
\* of the run is this one
RpReplayEnd ==
    /\ rp.pc = "replay"
    /\ rp.m = rp.call.months
    /\ rp' = [rp EXCEPT !.pc = "done",
                        !.ruin_probability =
                            IF rp.ruined \/ RLe(rp.balance, Zero) THEN One ELSE Zero]

ReplayInit ==
    /\ DrvIdle
    /\ fi = FiIdle
    /\ cf = CfIdle
    /\ rg = RgIdle
    /\ rs = RsIdle
    /\ det = DetIdle
    /\ cal = CalIdle
    /\ lp = LpIdle
    /\ sq = SqIdle
    /\ rnd = RndIdle
    /\ gf = GfIdle
    /\ RpInit

ReplayNext ==
    \/ RpMonth /\ UNCHANGED <<drv, fi, cf, rg, rs, det, cal, lp, sq, rnd, gf>>
    \/ RpSimEnd /\ UNCHANGED <<drv, fi, cf, rg, rs, det, cal, lp, sq, rnd, gf>>
    \/ RpReplayMonth /\ UNCHANGED <<drv, fi, cf, rg, rs, det, cal, lp, sq, rnd, gf>>
    \/ RpReplayEnd /\ UNCHANGED <<drv, fi, cf, rg, rs, det, cal, lp, sq, rnd, gf>>

SpecReplay == ReplayInit /\ [][ReplayNext]_vars

\* C25: replaying a simulation's recorded growth factors with the run's own
\* cashflow arrays reproduces the simulation: the replayed balance equals the
\* simulated end-of-month balance in every month, and the replay marks the
\* simulation ruined iff the run did not count it a success; so the cell that
\* rebuilds the run's cashflows holds 1 - successProbability.
C25_ReplayReproducesRun ==
    /\ rp.pc \in {"replay", "done"} =>
        \A k \in 1..Len(rp.replayed) : rp.replayed[k] = rp.sim_balances[k]
    /\ rp.pc = "done" =>
        /\ rp.ruin_probability = One <=> ~rp.success
        /\ rp.ruin_probability = RSub(One, IF rp.success THEN One ELSE Zero)

\* where every month divides by a power of two, no quotient is rounded and
\* the replay reproduces the simulation
C25_ReplayOfExactQuotients ==
    rp.call.monthly_inflation \in PowerOfTwoInflations =>
        /\ rp.pc \in {"replay", "done"} =>
            \A k \in 1..Len(rp.replayed) : rp.replayed[k] = rp.sim_balances[k]
        /\ rp.pc = "done" => (rp.ruin_probability = One <=> ~rp.success)

====
